---------------------------- MODULE Spec2Model ----------------------------
(***************************************************************************)
(* A model of EuroPDF-Extractor (src/utils/parser.py, src/extract_pdfs.py). *)
(*                                                                         *)
(* Text is modelled as a sequence of one-character strings, so that        *)
(* searching, slicing and stripping are computed character by character,   *)
(* with Python's index conventions (0-based offsets, -1 for "not found",   *)
(* negative slice bounds counted from the end).                            *)
(* A dict is modelled as a sequence of <<key, value>> pairs with distinct  *)
(* keys, in insertion order.                                               *)
(***************************************************************************)
EXTENDS Integers, Sequences, FiniteSets, TLC

VARIABLES
    \* Boundary Refiner (extract_sections_from_processed_text)
    r_pc, r_text, r_out1, r_out2,
    \* Section Segmenter (structure_raw_text_by_toc[_no_numbering])
    s_pc, s_doc, s_config, s_sections,
    \* Pipeline Orchestrator (process_pdf, PDFExtractor.__init__, extract_all)
    p_pc,           \* where the worker is
    p_kind,         \* the document's outline: "numbered", "unnumbered", "empty_toc"
    p_doc,          \* the handle self.doc: "unopened", "open", "closed"
    p_tmp,          \* the handle pdf_document of extract_pdf_textand_clean
    p_flag,         \* self.no_numbering_flag: "unset", "true", "false"
    p_ftoc,         \* self.formatted_toc: "unset", "partial", "full"
    p_structured,   \* structured_processed_text
    p_leveled,      \* leveled_text
    p_data,         \* data
    p_record,       \* what extract_all returned (<<>> before it returns)
    p_log,          \* the errors logged by extract_all, in order
    p_hist,         \* per executed stage: its input, its output, whether it raised
    p_attempted,    \* the captures attempted: "metadata", "cleaned_text"
    p_outcome,      \* of process_pdf: "running", "completed", "error"
    p_raised,       \* extract_all has raised
    p_source_error, \* the document could not be opened or read
    \* Numbering Codec (generate_next_numberings)
    c_pc,
    c_token,        \* a numbering token: a sequence of positive integers
    c_title,        \* a title text
    c_text,         \* the token rendered, "1.2."
    c_parts,        \* the rendered text parsed back
    c_next,         \* the candidate-next set of the rendered text
    c_norm,         \* the key "<rendered> <title>" after key normalization
    \* Numbering Consistency Repairer (step 5 of extract_all)
    n_pc,
    n_raw,          \* the mapping step 5 receives
    n_norm,         \* after normalize_keys_with_numbering
    n_flagged,      \* non_logical_indexes of find_and_replace_numberings (1-based)
    n_out,          \* after find_and_replace_numberings: [raised, value]
    \* Hierarchical Tree Builder (step 7 of extract_all)
    t_pc,
    t_flat,         \* the flat mapping title -> text
    t_organized,    \* after organize_by_levels_with_grouping
    t_restructured, \* after restructure_levels
    t_tree,         \* after resolve_and_filter_dict
    \* TOC Rectifier: search_and_replace_numbered_titles (step 1 of extract_all)
    q_pc,
    q_doc,          \* the pages and formatted_toc as the TOC loop left it
    q_toc,          \* formatted_toc, its titles rewritten in place
    q_i,            \* the TOC entry being searched (1-based)
    q_n,            \* the numbering pattern (1-based)
    q_v,            \* the title variation (1-based)
    q_p,            \* the page (0-based)
    q_found,        \* found_match
    \* Title reconstruction in numbering-trusted mode (steps 5 and 6 of extract_all)
    x_pc,
    x_toc,          \* self.formatted_toc
    x_sections,     \* structured_processed_text as step 5 receives it
    x_repaired,     \* structured_processed_text after step 5
    x_final         \* structured_processed_text after step 6

refVars == <<r_pc, r_text, r_out1, r_out2>>
segVars == <<s_pc, s_doc, s_config, s_sections>>
pipeVars == <<p_pc, p_kind, p_doc, p_tmp, p_flag, p_ftoc, p_structured, p_leveled,
              p_data, p_record, p_log, p_hist, p_attempted, p_outcome, p_raised,
              p_source_error>>
codVars == <<c_pc, c_token, c_title, c_text, c_parts, c_next, c_norm>>
numVars == <<n_pc, n_raw, n_norm, n_flagged, n_out>>
treeVars == <<t_pc, t_flat, t_organized, t_restructured, t_tree>>
searchVars == <<q_pc, q_doc, q_toc, q_i, q_n, q_v, q_p, q_found>>
retitleVars == <<x_pc, x_toc, x_sections, x_repaired, x_final>>
vars == <<refVars, segVars, pipeVars, codVars, numVars, treeVars, searchVars, retitleVars>>

\* What an action of one component leaves alone: the other components.
exceptRef == <<segVars, pipeVars, codVars, numVars, treeVars, searchVars, retitleVars>>
exceptSeg == <<refVars, pipeVars, codVars, numVars, treeVars, searchVars, retitleVars>>
exceptPipe == <<refVars, segVars, codVars, numVars, treeVars, searchVars, retitleVars>>
exceptCod == <<refVars, segVars, pipeVars, numVars, treeVars, searchVars, retitleVars>>
exceptNum == <<refVars, segVars, pipeVars, codVars, treeVars, searchVars, retitleVars>>
exceptTree == <<refVars, segVars, pipeVars, codVars, numVars, searchVars, retitleVars>>
exceptSearch == <<refVars, segVars, pipeVars, codVars, numVars, treeVars, retitleVars>>
exceptRetitle == <<refVars, segVars, pipeVars, codVars, numVars, treeVars, searchVars>>

---------------------------------------------------------------------------
(* Python str and dict primitives                                          *)

Digits == {"0", "1", "2", "3", "4", "5", "6", "7", "8", "9"}
Whitespace == {" ", "\n"}

IsDigit(c) == c \in Digits
IsSpace(c) == c \in Whitespace

SetMin(S) == CHOOSE x \in S : \A y \in S : x <= y
SetMax(S) == CHOOSE x \in S : \A y \in S : x >= y

\* A slice bound as Python normalises it against a string of length n.
NormIndex(i, n) ==
    IF i < 0 THEN (IF n + i < 0 THEN 0 ELSE n + i)
    ELSE IF i > n THEN n ELSE i

\* s[a:b]
PySlice(s, a, b) ==
    LET lo == NormIndex(a, Len(s))
        hi == NormIndex(b, Len(s))
    IN  IF lo >= hi THEN <<>> ELSE SubSeq(s, lo + 1, hi)

\* s[a:]
PySliceFrom(s, a) == PySlice(s, a, Len(s))

\* s[i:].startswith(sub), i a 0-based offset with 0 <= i <= len(s)
StartsWithAt(s, sub, i) ==
    /\ i + Len(sub) <= Len(s)
    /\ SubSeq(s, i + 1, i + Len(sub)) = sub

\* s.find(sub, start): the lowest offset >= start at which sub occurs, else -1
PyFind(s, sub, start) ==
    IF start > Len(s) THEN -1
    ELSE LET st == NormIndex(start, Len(s))
             hits == {i \in st..(Len(s) - Len(sub)) : StartsWithAt(s, sub, i)}
         IN  IF hits = {} THEN -1 ELSE SetMin(hits)

\* s.strip()
PyStrip(s) ==
    LET keep == {i \in 1..Len(s) : ~IsSpace(s[i])}
    IN  IF keep = {} THEN <<>> ELSE SubSeq(s, SetMin(keep), SetMax(keep))

\* dict: d.keys(), d.get(k, ""), d[k] = v
DictKeys(d) == [i \in 1..Len(d) |-> d[i][1]]
DictHas(d, k) == \E i \in 1..Len(d) : d[i][1] = k
DictGet(d, k) ==
    IF DictHas(d, k) THEN d[CHOOSE i \in 1..Len(d) : d[i][1] = k][2] ELSE <<>>
DictSet(d, k, v) ==
    IF DictHas(d, k)
    THEN [i \in 1..Len(d) |-> IF d[i][1] = k THEN <<k, v>> ELSE d[i]]
    ELSE Append(d, <<k, v>>)

---------------------------------------------------------------------------
(* Regular expressions on numbering prefixes                               *)

\* The length of the run of digits of s at 0-based offset i.
DigitRun(s, i) ==
    SetMax({k \in 0..(Len(s) - i) : \A j \in 1..k : IsDigit(s[i + j])})

\* The offset just after one \d+\. at offset i, or -1 when there is none.
AfterNumDot(s, i) ==
    LET k == DigitRun(s, i)
    IN  IF k > 0 /\ i + k < Len(s) /\ s[i + k + 1] = "." THEN i + k + 1 ELSE -1

\* The offset just after n repetitions of \d+\. from offset i, or -1.
RECURSIVE AfterNumDots(_, _, _)
AfterNumDots(s, i, n) ==
    IF n = 0 THEN i
    ELSE LET e == AfterNumDot(s, i)
         IN  IF e = -1 THEN -1 ELSE AfterNumDots(s, e, n - 1)

\* .+ at offset i: at least one character that is not a line break
DotPlusAt(s, i) == i < Len(s) /\ s[i + 1] # "\n"

\* \s+.+ at offset i
SpacesThenTextAt(s, i) ==
    \E k \in 1..(Len(s) - i) :
        /\ \A j \in 1..k : IsSpace(s[i + j])
        /\ DotPlusAt(s, i + k)

\* \s* at offset i: the offset after the run of whitespace
RECURSIVE SkipSpaces(_, _)
SkipSpaces(s, i) ==
    IF i < Len(s) /\ IsSpace(s[i + 1]) THEN SkipSpaces(s, i + 1) ELSE i


---------------------------------------------------------------------------
(* Boundary Refiner: extract_sections_from_processed_text                  *)

\* ^\d+\.\d+\.\d+\.\s+.+
MatchDepth3Spaced(t) ==
    /\ AfterNumDots(t, 0, 3) # -1
    /\ SpacesThenTextAt(t, AfterNumDots(t, 0, 3))

\* ^\d+\.\d+\..+  or  ^\d+\.\d+\.\d+\..+
MatchDepth2or3(t) ==
    \/ AfterNumDots(t, 0, 2) # -1 /\ DotPlusAt(t, AfterNumDots(t, 0, 2))
    \/ AfterNumDots(t, 0, 3) # -1 /\ DotPlusAt(t, AfterNumDots(t, 0, 3))

\* ^\d+\..+
MatchDepth1(t) ==
    AfterNumDot(t, 0) # -1 /\ DotPlusAt(t, AfterNumDot(t, 0))

\* ^\d+\.\s*.+
MatchDepth1Loose(t) ==
    /\ AfterNumDot(t, 0) # -1
    /\ \E k \in 0..(Len(t) - AfterNumDot(t, 0)) :
          /\ \A j \in 1..k : IsSpace(t[AfterNumDot(t, 0) + j])
          /\ DotPlusAt(t, AfterNumDot(t, 0) + k)

\* How many \d+\. the group (\d+\.){2,3} takes at offset i (greedy); 0: no match.
NumGroupReps(s, i) ==
    IF AfterNumDots(s, i, 3) # -1 THEN 3
    ELSE IF AfterNumDots(s, i, 2) # -1 THEN 2 ELSE 0

\* re.sub(r"((\d+\.){2,3})", r"\1 ", s), scanning from offset i: every
\* leftmost non-overlapping match is followed by an inserted space.
RECURSIVE SubNumGroups(_, _)
SubNumGroups(s, i) ==
    IF i >= Len(s) THEN <<>>
    ELSE IF NumGroupReps(s, i) > 0
         THEN LET e == AfterNumDots(s, i, NumGroupReps(s, i))
              IN  SubSeq(s, i + 1, e) \o <<" ">> \o SubNumGroups(s, e)
         ELSE <<s[i + 1]>> \o SubNumGroups(s, i + 1)

\* re.sub(r"^\d+\.\s*", "", t)
StripLeadingNumber(t) ==
    IF AfterNumDot(t, 0) = -1 THEN t
    ELSE PySliceFrom(t, SkipSpaces(t, AfterNumDot(t, 0)))

\* The search key of a title (modified_title / modified_next_title).
modified_title(title) ==
    IF MatchDepth3Spaced(title) THEN title
    ELSE IF MatchDepth2or3(title) THEN PyStrip(SubNumGroups(title, 0))
    ELSE IF MatchDepth1(title) THEN StripLeadingNumber(title)
    ELSE title

\* start_index of the current title when a next title exists: the search key,
\* else the raw title, else the title with its numbering stripped.
start_index_chain(current_text, title) ==
    LET s1 == PyFind(current_text, modified_title(title), 0)
        s2 == IF s1 = -1 THEN PyFind(current_text, title, 0) ELSE s1
    IN  IF s2 = -1 /\ MatchDepth1Loose(title)
        THEN PyFind(current_text, StripLeadingNumber(title), 0)
        ELSE s2

\* start_index of the final title: the search key alone.
start_index_last(current_text, title) ==
    PyFind(current_text, modified_title(title), 0)

\* end_index: the next title's search key, else the raw next title, searched
\* from start_index + len(modified_title).
end_index_of(current_text, title, next_title, start_index) ==
    LET from == start_index + Len(modified_title(title))
        e1 == PyFind(current_text, modified_title(next_title), from)
    IN  IF e1 = -1 THEN PyFind(current_text, next_title, from) ELSE e1

\* The body stored for titles[i] (i counts from 1).
section_text(titles, processed_text, i) ==
    LET title == titles[i]
        current_text == DictGet(processed_text, title)
    IN  IF current_text = <<>> THEN <<>>
        ELSE IF i < Len(titles)
        THEN LET start_index == start_index_chain(current_text, title)
                 end_index == end_index_of(current_text, title, titles[i + 1],
                                           start_index)
             IN  IF start_index # -1
                 THEN PyStrip(PySlice(current_text, start_index, end_index))
                 ELSE current_text
        ELSE LET start_index == start_index_last(current_text, title)
             IN  IF start_index # -1
                 THEN PyStrip(PySliceFrom(current_text, start_index))
                 ELSE current_text

RECURSIVE SectionedUpTo(_, _, _)
SectionedUpTo(titles, processed_text, n) ==
    IF n = 0 THEN <<>>
    ELSE DictSet(SectionedUpTo(titles, processed_text, n - 1),
                 titles[n], section_text(titles, processed_text, n))

extract_sections_from_processed_text(titles, processed_text) ==
    SectionedUpTo(titles, processed_text, Len(titles))

---------------------------------------------------------------------------
(* Inputs of the Boundary Refiner                                          *)

MaxTitles == 2
MaxPieces == 3

Letters == <<"a", "b", "c", "d">>

\* Numbering prefixes as they reach the Refiner: none, depth 1, depth 2
\* attached and spaced, depth 3.
NumberingPool ==
    { <<>>,
      <<"1", ".", " ">>,
      <<"1", ".", "1", ".">>,
      <<"1", ".", "1", ".", " ">>,
      <<"1", ".", "2", ".", "3", ".", " ">> }

Filler == <<" ", "x">>

RECURSIVE Concats(_, _)
Concats(P, n) ==
    IF n = 0 THEN {<<>>}
    ELSE LET C == Concats(P, n - 1) IN C \cup {c \o p : c \in C, p \in P}

TitleLists(n) ==
    {[i \in 1..n |-> num[i] \o <<Letters[i]>>] : num \in [1..n -> NumberingPool]}

\* A body is assembled from the title itself, the next title and filler text.
BodiesOf(T, i) ==
    Concats({T[j] : j \in {i, i + 1} \cap (1..Len(T))} \cup {Filler}, MaxPieces)

RefinerInputs(maxTitles) ==
    UNION {
        UNION { {[i \in 1..n |-> <<T[i], B[i]>>] :
                    B \in {b \in [1..n -> BodiesOf(T, 1) \cup BodiesOf(T, n)] :
                              \A i \in 1..n : b[i] \in BodiesOf(T, i)}}
                : T \in TitleLists(n) }
        : n \in 1..maxTitles }

RefIdle ==
    /\ r_pc = "idle"
    /\ r_text = <<>>
    /\ r_out1 = <<>>
    /\ r_out2 = <<>>

RefInit ==
    /\ r_pc = "input"
    /\ r_text \in RefinerInputs(MaxTitles)
    /\ r_out1 = <<>>
    /\ r_out2 = <<>>

\* Step 3 of extract_all: titles = list(keys), refine the mapping.
Refine ==
    /\ r_pc = "input"
    /\ r_out1' = extract_sections_from_processed_text(DictKeys(r_text), r_text)
    /\ r_pc' = "once"
    /\ UNCHANGED <<r_text, r_out2>>
    /\ UNCHANGED exceptRef

\* The Refiner applied to its own output, with the same title list.
RefineAgain ==
    /\ r_pc = "once"
    /\ r_out2' = extract_sections_from_processed_text(DictKeys(r_text), r_out1)
    /\ r_pc' = "twice"
    /\ UNCHANGED <<r_text, r_out1>>
    /\ UNCHANGED exceptRef

RefNext == Refine \/ RefineAgain


---------------------------------------------------------------------------
(* Text cleanup and the TOC loop of extract_toc                            *)

Uppers == {"A", "B", "C", "D", "E", "F", "G", "H", "I", "J", "K", "L", "M",
           "N", "O", "P", "Q", "R", "S", "T", "U", "V", "W", "X", "Y", "Z"}

\* s.replace(old, ""), scanning from offset i
RECURSIVE PyRemove(_, _, _)
PyRemove(s, old, i) ==
    IF i >= Len(s) THEN <<>>
    ELSE IF old # <<>> /\ StartsWithAt(s, old, i)
         THEN PyRemove(s, old, i + Len(old))
         ELSE <<s[i + 1]>> \o PyRemove(s, old, i + 1)

\* for x in xs: s = s.replace(x, "")
RECURSIVE RemoveAll(_, _, _)
RemoveAll(s, xs, n) ==
    IF n = 0 THEN s ELSE PyRemove(RemoveAll(s, xs, n - 1), xs[n], 0)

\* re.sub(r"\s+", " ", s), scanning from offset i
RECURSIVE CollapseSpaces(_, _)
CollapseSpaces(s, i) ==
    IF i >= Len(s) THEN <<>>
    ELSE IF IsSpace(s[i + 1])
         THEN <<" ">> \o CollapseSpaces(s, SkipSpaces(s, i))
         ELSE <<s[i + 1]>> \o CollapseSpaces(s, i + 1)

\* clean_text: the configured special characters and expressions (here
\* expressions without metacharacters, which match literally) are deleted,
\* whitespace runs collapse to one space, the ends are trimmed.
clean_text(config, text) ==
    LET t1 == RemoveAll(text, config.special_characters,
                        Len(config.special_characters))
        t2 == RemoveAll(t1, config.expressions, Len(config.expressions))
    IN  PyStrip(CollapseSpaces(t2, 0))

\* clean_title_suffix: (.*?)([A-Z]+\s*|\d+\s*)*$ keeps the shortest prefix whose
\* remainder is made of runs of capitals or digits, each followed by whitespace.
SuffixOnly(s, k) ==
    \/ k = Len(s)
    \/ /\ s[k + 1] \in Uppers \cup Digits
       /\ \A j \in (k + 1)..Len(s) : s[j] \in Uppers \cup Digits \cup Whitespace

clean_title_suffix(title) ==
    PyStrip(PySlice(title, 0, SetMin({k \in 0..Len(title) : SuffixOnly(title, k)})))

\* The offset just after \d+(\.\d+)* at offset i (greedy), or -1.
RECURSIVE AfterDotDigits(_, _)
AfterDotDigits(s, i) ==
    IF i < Len(s) /\ s[i + 1] = "." /\ DigitRun(s, i + 1) > 0
    THEN AfterDotDigits(s, i + 1 + DigitRun(s, i + 1))
    ELSE i

AfterDottedNumber(s, i) ==
    IF DigitRun(s, i) = 0 THEN -1 ELSE AfterDotDigits(s, i + DigitRun(s, i))

\* numbering_pattern of extract_toc: ^\d+(\.\d+)*\.?\s
HasNumberingPrefix(t) ==
    LET e == AfterDottedNumber(t, 0)
    IN  /\ e # -1
        /\ e < Len(t)
        /\ \/ IsSpace(t[e + 1])
           \/ t[e + 1] = "." /\ e + 1 < Len(t) /\ IsSpace(t[e + 2])

\* The loop of extract_toc over the first n items of the document's TOC:
\* formatted_toc and no_numbering_flag after them.
RECURSIVE TocLoop(_, _, _)
TocLoop(config, toc, n) ==
    IF n = 0 THEN [formatted_toc |-> <<>>, no_numbering_flag |-> TRUE]
    ELSE LET before == TocLoop(config, toc, n - 1)
             cleaned == clean_text(config, toc[n].title)
             flag == before.no_numbering_flag /\ ~HasNumberingPrefix(cleaned)
             title == IF flag THEN clean_title_suffix(cleaned) ELSE cleaned
         IN  [formatted_toc |->
                 Append(before.formatted_toc,
                        [level |-> toc[n].level, title |-> title,
                         page |-> toc[n].page]),
              no_numbering_flag |-> flag]

extract_toc_loop(config, toc) == TocLoop(config, toc, Len(toc))

---------------------------------------------------------------------------
(* Section Segmenter                                                       *)

\* page.get_text("text"): the whole page; with clip=main_content_rect: the page
\* without its header band (header_height) and footer band (footer_height).
PageText(page) == page.top \o page.main \o page.bottom
PageClipText(page) == page.main

\* for text_to_remove in texts_to_remove:
\*     section_text = section_text.replace(text_to_remove, "").strip()
RECURSIVE RemoveTexts(_, _, _)
RemoveTexts(s, xs, n) ==
    IF n = 0 THEN s ELSE PyStrip(PyRemove(RemoveTexts(s, xs, n - 1), xs[n], 0))

\* extract_pdf_textand_clean: the whole text of the first n pages, one after
\* the other with nothing in between, and its clean_text.
RECURSIVE AllText(_, _)
AllText(doc, n) ==
    IF n = 0 THEN <<>> ELSE AllText(doc, n - 1) \o PageText(doc.pages[n])

extract_pdf_textand_clean(doc, config) ==
    clean_text(config, AllText(doc, Len(doc.pages)))

\* (start_page, end_page) of TOC entry i, as 0-based page indexes.
start_page_of(toc, i) == toc[i].page - 1
end_page_of(doc, toc, i) ==
    IF i + 1 <= Len(toc) THEN toc[i + 1].page - 1 ELSE Len(doc.pages) - 1

\* Numbering-trusted mode: the clipped text of pages start_page..p, each
\* followed by a line break.
RECURSIVE TrustedText(_, _, _)
TrustedText(doc, start_page, p) ==
    IF p < start_page THEN <<>>
    ELSE TrustedText(doc, start_page, p - 1)
             \o PageClipText(doc.pages[p + 1]) \o <<"\n">>

RECURSIVE TrustedSections(_, _, _, _)
TrustedSections(doc, config, toc, n) ==
    IF n = 0 THEN <<>>
    ELSE DictSet(TrustedSections(doc, config, toc, n - 1),
                 toc[n].title,
                 clean_text(config,
                    RemoveTexts(TrustedText(doc, start_page_of(toc, n),
                                            end_page_of(doc, toc, n)),
                                config.texts_to_remove,
                                Len(config.texts_to_remove))))

\* structure_raw_text_by_toc: the TOC is extracted again, then every entry
\* takes the clipped text of its page range.
structure_raw_text_by_toc(doc, config) ==
    LET toc == extract_toc_loop(config, doc.toc).formatted_toc
    IN  TrustedSections(doc, config, toc, Len(toc))

\* trailing_number_pattern (.*?)(\d+(\.\d+)*\.)$ : the title without a trailing
\* number chain.
TrailingNumberAt(s, k) ==
    LET e == AfterDottedNumber(s, k)
    IN  e # -1 /\ e + 1 = Len(s) /\ s[e + 1] = "."

strip_trailing_number(title) ==
    LET ks == {k \in 0..Len(title) : TrailingNumberAt(title, k)}
    IN  IF ks = {} THEN title ELSE PyStrip(PySlice(title, 0, SetMin(ks)))

\* for i in range(len(text)): if text[i:].startswith(sub): ... break
ScanFor(text, sub) ==
    LET hits == {i \in 0..(Len(text) - 1) : StartsWithAt(text, sub, i)}
    IN  IF hits = {} THEN -1 ELSE SetMin(hits)

\* The page loop of the no-numbering mode for entry i over pages start_page..p:
\* section_text, start_found, and whether the loop has left by its break.
RECURSIVE NoNumLoop(_, _, _, _, _, _)
NoNumLoop(doc, config, toc, i, title, p) ==
    IF p < start_page_of(toc, i)
    THEN [section_text |-> <<>>, start_found |-> FALSE, broke |-> FALSE]
    ELSE LET acc == NoNumLoop(doc, config, toc, i, title, p - 1)
             page_text == clean_text(config, PageText(doc.pages[p + 1]))
         IN  IF acc.broke THEN acc
             ELSE IF ~acc.start_found
             THEN LET start_position == ScanFor(page_text, title)
                  IN  IF start_position # -1
                      THEN [section_text |-> acc.section_text
                                \o PySliceFrom(page_text, start_position) \o <<"\n">>,
                            start_found |-> TRUE, broke |-> FALSE]
                      ELSE acc
             ELSE LET end_position ==
                          IF i + 1 <= Len(toc)
                          THEN ScanFor(page_text, toc[i + 1].title) ELSE -1
                  IN  IF end_position # -1
                      THEN [section_text |-> acc.section_text
                                \o PySlice(page_text, 0, end_position),
                            start_found |-> TRUE, broke |-> TRUE]
                      ELSE [section_text |-> acc.section_text \o page_text \o <<"\n">>,
                            start_found |-> TRUE, broke |-> FALSE]

no_numbering_body(doc, config, toc, i) ==
    clean_text(config,
        RemoveTexts(NoNumLoop(doc, config, toc, i,
                              strip_trailing_number(toc[i].title),
                              end_page_of(doc, toc, i)).section_text,
                    config.texts_to_remove, Len(config.texts_to_remove)))

RECURSIVE NoNumSections(_, _, _, _)
NoNumSections(doc, config, toc, n) ==
    IF n = 0 THEN <<>>
    ELSE DictSet(NoNumSections(doc, config, toc, n - 1),
                 strip_trailing_number(toc[n].title),
                 no_numbering_body(doc, config, toc, n))

\* structure_raw_text_by_toc_no_numbering, on self.formatted_toc
structure_raw_text_by_toc_no_numbering(doc, config, toc) ==
    NoNumSections(doc, config, toc, Len(toc))

---------------------------------------------------------------------------
(* Inputs of the Section Segmenter                                         *)

MaxToc == 2
MaxPages == 2
MaxPagePieces == 2

\* TOC titles as the document's outline gives them.
TocTitlePool ==
    { <<"a">>, <<"b">>,
      <<"a", " ", "1", ".">>,
      <<"a", " ", "B">>,
      <<"1", ".", " ", "a">>,
      <<"1", ".", " ", "b">> }

\* Page text carries no digit, so that numbering recovery
\* (search_and_replace_numbered_titles, every pattern of which starts with \d+)
\* finds nothing and leaves formatted_toc as the TOC loop built it.
PagePieces == { <<"a", " ">>, <<"b", " ">>, <<"x", "\n">> }

PageMains(n) == Concats(PagePieces, n)

PageSets(maxPages) ==
    UNION { {[p \in 1..n |-> m[p]] :
                m \in {f \in [1..n -> PageMains(MaxPagePieces)] :
                          \A p \in 2..n : f[p] \in PageMains(1)}}
            : n \in 1..maxPages }

TocsFor(npages) ==
    UNION { {[i \in 1..n |-> [level |-> 1, title |-> t[i], page |-> pg[i]]] :
                t \in [1..n -> TocTitlePool],
                pg \in {f \in [1..n -> 1..npages] :
                           \A i \in 1..(n - 1) : f[i] <= f[i + 1]}}
            : n \in 1..MaxToc }

NoCleanup ==
    [special_characters |-> <<>>, expressions |-> <<>>, texts_to_remove |-> <<>>]
RemoveX ==
    [special_characters |-> <<>>, expressions |-> <<>>,
     texts_to_remove |-> << <<"x">> >>]

\* <<running header of every page, cleanup configuration>>
Layouts == { <<<<>>, NoCleanup>>, <<<<"h", " ">>, NoCleanup>>, <<<<"h", " ">>, RemoveX>> }

SegDocs(top) ==
    UNION { {[pages |-> [p \in 1..Len(m) |->
                            [top |-> top, main |-> m[p], bottom |-> <<>>]],
              toc |-> toc] : toc \in TocsFor(Len(m))}
            : m \in PageSets(MaxPages) }

SegIdle ==
    /\ s_pc = "idle"
    /\ s_doc = <<>>
    /\ s_config = <<>>
    /\ s_sections = <<>>

SegInit ==
    /\ s_pc = "input"
    /\ \E lay \in Layouts :
          /\ s_config = lay[2]
          /\ s_doc \in SegDocs(lay[1])
    /\ s_sections = <<>>

\* self.formatted_toc and self.no_numbering_flag as step 1 leaves them.
SegToc == extract_toc_loop(s_config, s_doc.toc)

\* Step 2 of extract_all, numbering-trusted mode.
SegmentTrusted ==
    /\ s_pc = "input"
    /\ ~SegToc.no_numbering_flag
    /\ s_sections' = structure_raw_text_by_toc(s_doc, s_config)
    /\ s_pc' = "trusted"
    /\ UNCHANGED <<s_doc, s_config>>
    /\ UNCHANGED exceptSeg

\* Step 2 of extract_all, no-numbering mode.
SegmentNoNumbering ==
    /\ s_pc = "input"
    /\ SegToc.no_numbering_flag
    /\ s_sections' = structure_raw_text_by_toc_no_numbering(
                         s_doc, s_config, SegToc.formatted_toc)
    /\ s_pc' = "nonum"
    /\ UNCHANGED <<s_doc, s_config>>
    /\ UNCHANGED exceptSeg

SegNext == SegmentTrusted \/ SegmentNoNumbering

---------------------------------------------------------------------------
(* Numbering Codec: str(int), int(str), '.'.join, strip('.'), split('.')    *)

DigitChars == <<"0", "1", "2", "3", "4", "5", "6", "7", "8", "9">>
DigitVal(c) == (CHOOSE d \in 1..10 : DigitChars[d] = c) - 1

\* str(n) for an integer n >= 0
RECURSIVE IntToStr(_)
IntToStr(n) ==
    IF n < 10 THEN <<DigitChars[n + 1]>>
    ELSE IntToStr(n \div 10) \o <<DigitChars[(n % 10) + 1]>>

\* int(s) for a non-empty string of digits
RECURSIVE StrToInt(_)
StrToInt(s) ==
    IF Len(s) = 1 THEN DigitVal(s[1])
    ELSE 10 * StrToInt(SubSeq(s, 1, Len(s) - 1)) + DigitVal(s[Len(s)])

\* '.'.join(map(str, parts))
RECURSIVE JoinDots(_)
JoinDots(parts) ==
    IF parts = <<>> THEN <<>>
    ELSE IF Len(parts) = 1 THEN IntToStr(parts[1])
    ELSE JoinDots(SubSeq(parts, 1, Len(parts) - 1)) \o <<".">> \o IntToStr(parts[Len(parts)])

\* '.'.join(map(str, parts)) + '.'
RenderNumbering(parts) == JoinDots(parts) \o <<".">>

\* s.strip('.')
StripDots(s) ==
    LET keep == {i \in 1..Len(s) : s[i] # "."}
    IN  IF keep = {} THEN <<>> ELSE SubSeq(s, SetMin(keep), SetMax(keep))

\* s.split(sep) for a one-character separator: the pieces, empty ones included
RECURSIVE SplitOn(_, _)
SplitOn(s, sep) ==
    LET hits == {i \in 1..Len(s) : s[i] = sep}
    IN  IF hits = {} THEN <<s>>
        ELSE <<SubSeq(s, 1, SetMin(hits) - 1)>>
             \o SplitOn(SubSeq(s, SetMin(hits) + 1, Len(s)), sep)

\* s.split(' ', 1): at most one split
SplitFirstSpace(s) ==
    LET hits == {i \in 1..Len(s) : s[i] = " "}
    IN  IF hits = {} THEN <<s>>
        ELSE <<SubSeq(s, 1, SetMin(hits) - 1), SubSeq(s, SetMin(hits) + 1, Len(s))>>

\* s.replace('.', '').isdigit()
IsDigitsAndDots(s) ==
    /\ \A i \in 1..Len(s) : s[i] = "." \/ IsDigit(s[i])
    /\ \E i \in 1..Len(s) : IsDigit(s[i])

\* list(map(int, s.strip('.').split('.'))) raises ValueError when a piece is
\* not a string of digits (an empty piece included).
ParseRaises(s) ==
    LET pieces == SplitOn(StripDots(s), ".")
    IN  \E k \in 1..Len(pieces) :
            pieces[k] = <<>> \/ \E i \in 1..Len(pieces[k]) : ~IsDigit(pieces[k][i])
\* A parser that reads one digit per component (not the code's: int() reads
\* the whole run of digits).
ParseNumberingOneDigit(s) ==
    LET pieces == SplitOn(StripDots(s), ".")
    IN  [k \in 1..Len(pieces) |-> StrToInt(SubSeq(pieces[k], 1, 1))]
ParseNumbering(s) ==
    LET pieces == SplitOn(StripDots(s), ".")
    IN  [k \in 1..Len(pieces) |-> StrToInt(pieces[k])]

\* Candidates of the other levels only (not the code's: children and strictly
\* higher levels, nothing at the level of the last component).
NextPartsOtherLevels(parts) ==
    LET n == Len(parts)
    IN  (IF n < 4 THEN {parts \o <<x>> : x \in 1..9} ELSE {})
        \cup {SubSeq(parts, 1, i + 1) \o <<parts[i + 2] + x>> :
                 i \in 0..(n - 3), x \in 1..9}
        \cup (IF n > 1 THEN {<<parts[1] + 1>>} ELSE {})

\* generate_next_numberings, on the parsed parts: the candidates as parts
NextParts(parts) ==
    LET n == Len(parts)
        front == SubSeq(parts, 1, n - 1)
        last == parts[n]
        incremented == {front \o <<last + 1>>}
        sub_levels ==
            IF n < 4
            THEN {parts \o <<x>> : x \in 1..9}
                 \cup (IF n + 1 < 4
                       THEN {parts \o <<x, y>> : x \in 1..9, y \in 1..9} ELSE {})
            ELSE {}
        sibling_levels ==
            {front \o <<x>> : x \in (last + 1)..(last + 9)}
            \cup (IF n < 4
                  THEN {front \o <<x, y>> : x \in (last + 1)..(last + 9), y \in 1..9}
                  ELSE {})
        higher_levels ==
            {SubSeq(parts, 1, i + 1) \o <<parts[i + 2] + x>> :
                i \in 0..(n - 2), x \in 1..9}
        top_level == {<<parts[1] + 1>>}
    IN  incremented \cup sub_levels \cup sibling_levels \cup higher_levels
        \cup top_level

\* A strict successor relation (not the code's: only the increment, the first
\* child and the next chapter, with no skipping ahead).
strict_next_numberings(current_numbering) ==
    LET parts == ParseNumbering(current_numbering)
        n == Len(parts)
    IN  {RenderNumbering(p) :
            p \in {SubSeq(parts, 1, n - 1) \o <<parts[n] + 1>>,
                   parts \o <<1>>, <<parts[1] + 1>>}}

\* generate_next_numberings(current_numbering): the candidates as rendered;
\* the code returns them sorted, and uses the list for membership only.
generate_next_numberings(current_numbering) ==
    {RenderNumbering(p) : p \in NextParts(ParseNumbering(current_numbering))}

---------------------------------------------------------------------------
(* Numbering Consistency Repairer                                          *)

\* .* : the text from offset i up to the end of the line
RestOfLine(s, i) ==
    LET nls == {k \in (i + 1)..Len(s) : s[k] = "\n"}
    IN  SubSeq(s, i + 1, IF nls = {} THEN Len(s) ELSE SetMin(nls) - 1)

\* One key of normalize_keys_with_numbering:
\* re.match(r'^(\d+(\.\d+)*)(\.?)(\s*)(.*)', key), f"{numbering}. {title.strip()}"
normalized_key(key) ==
    LET e1 == AfterDottedNumber(key, 0)
        e2 == IF e1 # -1 /\ e1 < Len(key) /\ key[e1 + 1] = "." THEN e1 + 1 ELSE e1
        e3 == SkipSpaces(key, e2)
    IN  IF e1 = -1 THEN key
        ELSE SubSeq(key, 1, e1) \o <<".", " ">> \o PyStrip(RestOfLine(key, e3))

RECURSIVE NormalizedUpTo(_, _)
NormalizedUpTo(input_dict, n) ==
    IF n = 0 THEN <<>>
    ELSE DictSet(NormalizedUpTo(input_dict, n - 1),
                 normalized_key(input_dict[n][1]), input_dict[n][2])

normalize_keys_with_numbering(input_dict) == NormalizedUpTo(input_dict, Len(input_dict))

\* find_and_replace_numberings: the numbering of each key, <<>> for a blank
numberings_of(data) ==
    [idx \in 1..Len(data) |->
        LET parts == SplitFirstSpace(data[idx][1])
        IN  IF IsDigitsAndDots(parts[1]) THEN parts[1] ELSE <<>>]

\* The while loop that collects non_logical_indexes, from position i (1-based)
\* on: [raised, flagged].  generate_next_numberings is called, and may raise,
\* only when a numbered entry follows the current one.
RECURSIVE NonLogicalFrom(_, _, _)
NonLogicalFrom(numberings, i, flagged) ==
    LET later == {j \in (i + 1)..Len(numberings) : numberings[j] # <<>>}
    IN  IF i >= Len(numberings) THEN [raised |-> FALSE, flagged |-> flagged]
        ELSE IF numberings[i] = <<>> THEN NonLogicalFrom(numberings, i + 1, flagged)
        ELSE IF later = {} THEN [raised |-> FALSE, flagged |-> flagged]
        ELSE IF ParseRaises(numberings[i]) THEN [raised |-> TRUE, flagged |-> flagged]
        ELSE LET generated == generate_next_numberings(numberings[i])
                 logical == {j \in later : numberings[j] \in generated}
             IN  IF logical = {}
                 THEN [raised |-> FALSE, flagged |-> flagged \cup later]
                 ELSE NonLogicalFrom(numberings, SetMin(logical),
                         flagged \cup {j \in later : j < SetMin(logical)})

non_logical_indexes(numberings) == NonLogicalFrom(numberings, 1, {})

\* The numbering rebuilt for a flagged entry between prev_valid and next_valid
rebuilt_numbering(prev_valid, next_valid) ==
    LET prev_parts == ParseNumbering(prev_valid)
        next_parts == ParseNumbering(next_valid)
    IN  IF Len(prev_parts) = 1 /\ next_parts[1] = prev_parts[1]
        THEN RenderNumbering(prev_parts \o <<1>>)
        ELSE RenderNumbering(SubSeq(prev_parts, 1, Len(prev_parts) - 1)
                             \o <<prev_parts[Len(prev_parts)] + 1>>)

\* The reconstruction loop over the flagged indexes in increasing order:
\* [raised, numberings].  An entry with no numbered entry before it or after
\* it keeps its numbering.
RECURSIVE ReconstructFrom(_, _)
ReconstructFrom(reconstructed, todo) ==
    IF todo = {} THEN [raised |-> FALSE, numberings |-> reconstructed]
    ELSE LET idx == SetMin(todo)
             before == {i \in 1..(idx - 1) : reconstructed[i] # <<>>}
             after == {i \in (idx + 1)..Len(reconstructed) : reconstructed[i] # <<>>}
         IN  IF before = {} \/ after = {}
             THEN ReconstructFrom(reconstructed, todo \ {idx})
             ELSE LET prev_valid == reconstructed[SetMax(before)]
                      next_valid == reconstructed[SetMin(after)]
                  IN  IF ParseRaises(prev_valid) \/ ParseRaises(next_valid)
                      THEN [raised |-> TRUE, numberings |-> reconstructed]
                      ELSE ReconstructFrom(
                              [reconstructed EXCEPT
                                  ![idx] = rebuilt_numbering(prev_valid, next_valid)],
                              todo \ {idx})

\* The loop that builds updated_dict from the first n entries
RECURSIVE UpdatedUpTo(_, _, _)
UpdatedUpTo(data, reconstructed, n) ==
    IF n = 0 THEN <<>>
    ELSE LET parts == SplitFirstSpace(data[n][1])
             blank == ~IsDigitsAndDots(parts[1])
             new_key == IF blank THEN data[n][1]
                        ELSE IF Len(parts) > 1
                             THEN reconstructed[n] \o <<" ">> \o parts[2]
                             ELSE reconstructed[n]
         IN  DictSet(UpdatedUpTo(data, reconstructed, n - 1), new_key, data[n][2])

\* find_and_replace_numberings(data): [raised, value]
find_and_replace_numberings(data) ==
    LET numberings == numberings_of(data)
        scan == non_logical_indexes(numberings)
        rebuilt == ReconstructFrom(numberings, scan.flagged)
    IN  IF scan.raised \/ rebuilt.raised THEN [raised |-> TRUE, value |-> <<>>]
        ELSE [raised |-> FALSE,
              value |-> UpdatedUpTo(data, rebuilt.numberings, Len(data))]

---------------------------------------------------------------------------
(* Numbering Codec and Repairer: inputs and steps                          *)

MaxDepth == 5
ComponentPool == {1, 9, 10}
TitleTextPool == { <<>>, <<"a">>, <<"a", " ", "b">>, <<"2", " ", "a">> }

Tokens(maxDepth) == UNION {[1..d -> ComponentPool] : d \in 1..maxDepth}

CodIdle ==
    /\ c_pc = "idle"
    /\ c_token = <<>>
    /\ c_title = <<>>
    /\ c_text = <<>>
    /\ c_parts = <<>>
    /\ c_next = {}
    /\ c_norm = <<>>

CodInit ==
    /\ c_pc = "token"
    /\ c_token \in Tokens(MaxDepth)
    /\ c_title \in TitleTextPool
    /\ c_text = <<>>
    /\ c_parts = <<>>
    /\ c_next = {}
    /\ c_norm = <<>>

\* possibilities.append('.'.join(map(str, parts)) + '.')
Render ==
    /\ c_pc = "token"
    /\ c_text' = RenderNumbering(c_token)
    /\ c_pc' = "rendered"
    /\ UNCHANGED <<c_token, c_title, c_parts, c_next, c_norm>>
    /\ UNCHANGED exceptCod

\* parts = list(map(int, current_numbering.strip('.').split('.')))
Parse ==
    /\ c_pc = "rendered"
    /\ ~ParseRaises(c_text)
    /\ c_parts' = ParseNumbering(c_text)
    /\ c_pc' = "parsed"
    /\ UNCHANGED <<c_token, c_title, c_text, c_next, c_norm>>
    /\ UNCHANGED exceptCod

\* generate_next_numberings(current_numbering)
Generate ==
    /\ c_pc = "parsed"
    /\ c_next' = generate_next_numberings(c_text)
    /\ c_pc' = "generated"
    /\ UNCHANGED <<c_token, c_title, c_text, c_parts, c_norm>>
    /\ UNCHANGED exceptCod

\* normalize_keys_with_numbering on the key "<numbering> <title>"
NormalizeKey ==
    /\ c_pc = "generated"
    /\ c_norm' = normalized_key(c_text \o <<" ">> \o c_title)
    /\ c_pc' = "normalized"
    /\ UNCHANGED <<c_token, c_title, c_text, c_parts, c_next>>
    /\ UNCHANGED exceptCod

CodNext == Render \/ Parse \/ Generate \/ NormalizeKey

MaxKeys == 3
KeyPrefixPool ==
    { <<>>,
      <<"1", ".", " ">>,
      <<"1", ".", "1", ".", " ">>,
      <<"1", ".", "3", ".", " ">>,
      <<"1", ".", "1", "0", ".", " ">>,
      <<"2", ".", " ">>,
      <<"2", ".", "1", ".", " ">>,
      <<"1", ".", "1", " ">>,
      <<"3", ".">>,
      <<".", "5", " ">>,
      <<".", "1", ".", ".", "2", " ">> }

\* The mappings step 5 may receive: n keys, each a prefix of the pool and a
\* text of its own, each with a value of its own.
RepairInputs(maxKeys) ==
    UNION { {[i \in 1..n |-> <<pre[i] \o <<Letters[i]>>, <<"v", Letters[i]>>>>] :
                pre \in [1..n -> KeyPrefixPool]}
            : n \in 1..maxKeys }

NumIdle ==
    /\ n_pc = "idle"
    /\ n_raw = <<>>
    /\ n_norm = <<>>
    /\ n_flagged = {}
    /\ n_out = [raised |-> FALSE, value |-> <<>>]

NumInit ==
    /\ n_pc = "raw"
    /\ n_raw \in RepairInputs(MaxKeys)
    /\ n_norm = <<>>
    /\ n_flagged = {}
    /\ n_out = [raised |-> FALSE, value |-> <<>>]

\* Mappings whose keys are well-formed numberings down to depth 3 followed by
\* a title text that several keys may share; the keys of one mapping are
\* distinct (it is a dict), each entry has a value of its own.
MaxDeepKeys == 4
DeepPrefixPool ==
    { <<"1", ".", " ">>,
      <<"1", ".", "1", ".", " ">>,
      <<"1", ".", "1", ".", "2", ".", " ">>,
      <<"1", ".", "2", ".", " ">>,
      <<"2", ".", " ">>,
      <<"2", ".", "1", ".", " ">> }
DeepKeyPool == {pre \o <<t>> : pre \in DeepPrefixPool, t \in {"a", "b"}}

DeepRepairInputs(maxKeys) ==
    UNION { {[i \in 1..n |-> <<k[i], <<"v", Letters[i]>>>>] :
                k \in {f \in [1..n -> DeepKeyPool] :
                          \A i, j \in 1..n : i # j => f[i] # f[j]}}
            : n \in 1..maxKeys }

NumInitDeep ==
    /\ n_pc = "raw"
    /\ n_raw \in DeepRepairInputs(MaxDeepKeys)
    /\ n_norm = <<>>
    /\ n_flagged = {}
    /\ n_out = [raised |-> FALSE, value |-> <<>>]

\* Step 5: structured_processed_text = self.normalize_keys_with_numbering(...)
NormalizeKeys ==
    /\ n_pc = "raw"
    /\ n_norm' = normalize_keys_with_numbering(n_raw)
    /\ n_pc' = "normalized"
    /\ UNCHANGED <<n_raw, n_flagged, n_out>>
    /\ UNCHANGED exceptNum

\* Step 5: structured_processed_text = self.find_and_replace_numberings(...)
RepairNumberings ==
    /\ n_pc = "normalized"
    /\ n_out' = find_and_replace_numberings(n_norm)
    /\ n_flagged' = non_logical_indexes(numberings_of(n_norm)).flagged
    /\ n_pc' = "repaired"
    /\ UNCHANGED <<n_raw, n_norm>>
    /\ UNCHANGED exceptNum

NumNext == NormalizeKeys \/ RepairNumberings

---------------------------------------------------------------------------
(* Pipeline Orchestrator                                                   *)
(*                                                                         *)
(* The orchestrator is modelled for its control flow: which call raises,   *)
(* which handler catches it, what each variable holds afterwards.  A       *)
(* mapping is represented by how it was produced: the sequence of the      *)
(* functions applied to build it, the Segmenter first; <<>> is the empty   *)
(* dict {}.  Any call into the document source or a stage may raise.       *)

EmptyData ==
    [metadata |-> <<>>, processed_text |-> <<>>, leveled_text |-> <<>>,
     cleaned_text |-> <<>>]

\* ordered_data = OrderedDict([("metadata", ...), ("leveled_text", ...), ...])
ordered_data(data) ==
    << <<"metadata", data.metadata>>,
       <<"leveled_text", data.leveled_text>>,
       <<"processed_text", data.processed_text>>,
       <<"cleaned_text", data.cleaned_text>> >>

\* The handler that catches an exception raised in a block of extract_all:
\* each of steps 1 to 7 and the block that populates data is a try with its
\* own "except Exception"; anything raised elsewhere in the outer try would
\* reach the outer "except Exception".
InnerTryBlocks ==
    {"Step 1", "Step 2", "Step 3", "Step 4", "Step 5", "Step 6", "Step 7",
     "Populate"}
\* The same with the block that populates data not a try of its own.
handler_without_populate_try(block) ==
    IF block \in InnerTryBlocks \ {"Populate"} THEN "inner" ELSE "outer"
handler_of(block) == IF block \in InnerTryBlocks THEN "inner" ELSE "outer"

\* x after the calls fns, applied in order and each assigned back to the
\* variable, when the call named raised (or none) raises; when the first call
\* raises the variable keeps the value `kept`.
IndexOf(fns, f) == CHOOSE k \in 1..Len(fns) : fns[k] = f
RunChain(x, fns, raised, kept) ==
    IF raised = "none" THEN x \o fns
    ELSE IF IndexOf(fns, raised) = 1 THEN kept
    ELSE x \o SubSeq(fns, 1, IndexOf(fns, raised) - 1)

RaisesOf(fns) == {fns[k] : k \in 1..Len(fns)} \cup {"none"}

Step4Calls == <<"process_titles", "refine_extracted_sections">>
Step5Calls == <<"normalize_keys_with_numbering", "find_and_replace_numberings",
                "remove_title_from_text">>
Step7Calls == <<"organize_by_levels_with_grouping", "restructure_levels",
                "resolve_and_filter_dict">>

\* extract_pdf_textand_clean: the handle pdf_document after the call that
\* raised (or none): fitz.open, page.get_text, clean_text.
CaptureRaises == {"none", "fitz.open", "page.get_text", "clean_text"}
tmp_after(raised) ==
    IF raised = "fitz.open" THEN "unopened"
    ELSE IF raised = "page.get_text" THEN "open"
    ELSE "closed"

\* extract_toc run on a document of outline `kind`: the possible results
\* <<what raised, no_numbering_flag, formatted_toc>>.  get_toc raises before
\* anything is assigned; a later failure (there is none when the outline has
\* no entry) leaves a partial formatted_toc and the flag as the loop had it.
extract_toc_results(kind, flag, ftoc) ==
    { <<"none", IF kind = "numbered" THEN "false" ELSE "true", "full">>,
      <<"get_toc", flag, ftoc>> }
    \cup (IF kind # "empty_toc" THEN {<<"extract_toc", "true", "partial">>} ELSE {})
    \cup (IF kind = "numbered" THEN {<<"extract_toc", "false", "partial">>} ELSE {})

PipeIdle ==
    /\ p_pc = "idle"
    /\ p_kind = "none"
    /\ p_doc = "unopened"
    /\ p_tmp = "unopened"
    /\ p_flag = "unset"
    /\ p_ftoc = "unset"
    /\ p_structured = <<>>
    /\ p_leveled = <<>>
    /\ p_data = EmptyData
    /\ p_record = <<>>
    /\ p_log = <<>>
    /\ p_hist = <<>>
    /\ p_attempted = {}
    /\ p_outcome = "running"
    /\ p_raised = FALSE
    /\ p_source_error = FALSE

PipeInit ==
    /\ p_pc = "process_pdf"
    /\ p_kind \in {"numbered", "unnumbered", "empty_toc"}
    /\ p_doc = "unopened"
    /\ p_tmp = "unopened"
    /\ p_flag = "unset"
    /\ p_ftoc = "unset"
    /\ p_structured = <<>>
    /\ p_leveled = <<>>
    /\ p_data = EmptyData
    /\ p_record = <<>>
    /\ p_log = <<>>
    /\ p_hist = <<>>
    /\ p_attempted = {}
    /\ p_outcome = "running"
    /\ p_raised = FALSE
    /\ p_source_error = FALSE

\* The end of a block of extract_all in which `raised` raised (or none): the
\* inner handler logs and the run goes on at `next`; the outer handler logs,
\* then captures metadata and cleaned text unguarded, so that a second failure
\* leaves extract_all and is caught by process_pdf.
EndOfBlock(block, raised, next, data, tmp, attempted, source) ==
    IF raised = "none"
    THEN /\ p_pc' = next
         /\ p_log' = p_log
         /\ p_data' = data
         /\ p_tmp' = tmp
         /\ p_attempted' = attempted
         /\ p_source_error' = (p_source_error \/ source)
         /\ UNCHANGED <<p_outcome, p_raised>>
    ELSE IF handler_of(block) = "inner"
    THEN /\ p_pc' = next
         /\ p_log' = Append(p_log, block)
         /\ p_data' = data
         /\ p_tmp' = tmp
         /\ p_attempted' = attempted
         /\ p_source_error' = (p_source_error \/ source)
         /\ UNCHANGED <<p_outcome, p_raised>>
    ELSE \E again \in CaptureRaises \cup {"extract_metadata"} :
         /\ p_log' = Append(p_log, "Pipeline")
         /\ p_attempted' = IF again = "extract_metadata" THEN {"metadata"}
                           ELSE {"metadata", "cleaned_text"}
         /\ p_tmp' = IF again = "extract_metadata" THEN tmp ELSE tmp_after(again)
         /\ p_data' = [data EXCEPT
                          !.metadata = IF again = "extract_metadata" THEN @
                                       ELSE <<"doc.metadata">>,
                          !.cleaned_text = IF again = "none"
                                           THEN <<"extract_pdf_textand_clean">>
                                           ELSE @]
         /\ p_source_error' =
                (p_source_error \/ source \/ again \in {"fitz.open", "page.get_text"})
         /\ p_raised' = (again # "none")
         /\ p_outcome' = IF again # "none" THEN "error" ELSE p_outcome
         /\ p_pc' = IF again # "none" THEN "done" ELSE "save"

\* A stage's entry in the history.
Staged(block, in, out, raised) ==
    Append(p_hist, [stage |-> block, in |-> in, out |-> out,
                    failed |-> (raised # "none")])

\* process_pdf creates the extractor: __init__ creates the output folder,
\* opens the document, loads the configuration.
Construct ==
    /\ p_pc = "process_pdf"
    /\ \E raised \in {"none", "_create_output_folder", "_open_pdf", "_load_config"} :
          /\ p_doc' = IF raised \in {"none", "_load_config"} THEN "open"
                      ELSE "unopened"
          /\ p_source_error' = (raised = "_open_pdf")
          /\ p_pc' = IF raised = "none" THEN "step1" ELSE "done"
          /\ p_outcome' = IF raised = "none" THEN "running" ELSE "error"
    /\ UNCHANGED <<p_kind, p_tmp, p_flag, p_ftoc, p_structured, p_leveled, p_data,
                   p_record, p_log, p_hist, p_attempted, p_raised>>
    /\ UNCHANGED exceptPipe

\* Step 1: extract_toc
Step1 ==
    /\ p_pc = "step1"
    /\ \E res \in extract_toc_results(p_kind, p_flag, p_ftoc) :
          /\ p_flag' = res[2]
          /\ p_ftoc' = res[3]
          /\ p_hist' = Staged("Step 1", <<>>, <<>>, res[1])
          /\ EndOfBlock("Step 1", res[1], "step2", p_data, p_tmp, p_attempted,
                        res[1] = "get_toc")
    /\ UNCHANGED <<p_kind, p_doc, p_structured, p_leveled, p_record>>
    /\ UNCHANGED exceptPipe

\* Step 2: the Segmenter.  An unset flag raises AttributeError; the
\* no-numbering mode reads self.formatted_toc (AttributeError when unset, fewer
\* or no entries when partial); the trusted mode runs extract_toc again.
Step2Results ==
    IF p_flag = "unset" THEN {<<"no_numbering_flag", p_flag, p_ftoc, <<>>>>}
    ELSE IF p_flag = "true"
    THEN IF p_ftoc = "unset" THEN {<<"formatted_toc", p_flag, p_ftoc, <<>>>>}
         ELSE IF p_kind = "empty_toc" THEN {<<"none", p_flag, p_ftoc, <<>>>>}
         ELSE {<<"load_page", p_flag, p_ftoc, <<>>>>,
               <<"none", p_flag, p_ftoc, <<"structure_raw_text_by_toc_no_numbering">>>>}
              \cup (IF p_ftoc = "partial"
                    THEN {<<"none", p_flag, p_ftoc, <<>>>>} ELSE {})
    ELSE {IF res[1] = "none"
          THEN <<"none", res[2], res[3], <<"structure_raw_text_by_toc">>>>
          ELSE <<res[1], res[2], res[3], <<>>>> :
             res \in extract_toc_results(p_kind, p_flag, p_ftoc)}
         \cup {<<"load_page", "false", "full", <<>>>>}

Step2 ==
    /\ p_pc = "step2"
    /\ \E res \in Step2Results :
          /\ p_flag' = res[2]
          /\ p_ftoc' = res[3]
          /\ p_structured' = res[4]
          /\ p_hist' = Staged("Step 2", <<>>, res[4], res[1])
          /\ EndOfBlock("Step 2", res[1], "step3", p_data, p_tmp, p_attempted,
                        res[1] \in {"get_toc", "load_page"})
    /\ UNCHANGED <<p_kind, p_doc, p_leveled, p_record>>
    /\ UNCHANGED exceptPipe

\* Step 3: the Boundary Refiner, when there are sections
Step3 ==
    /\ p_pc = "step3"
    /\ \E raised \in IF p_structured = <<>> THEN {"none"}
                     ELSE RaisesOf(<<"extract_sections_from_processed_text">>) :
          /\ p_structured' =
                IF p_structured = <<>> THEN <<>>
                ELSE RunChain(p_structured, <<"extract_sections_from_processed_text">>,
                              raised, p_structured)
          /\ p_hist' = Staged("Step 3", p_structured, p_structured', raised)
          /\ EndOfBlock("Step 3", raised, "step4", p_data, p_tmp, p_attempted, FALSE)
    /\ UNCHANGED <<p_kind, p_doc, p_flag, p_ftoc, p_leveled, p_record>>
    /\ UNCHANGED exceptPipe

\* Step 4: the no-numbering refinements
Step4 ==
    /\ p_pc = "step4"
    /\ \E raised \in IF p_flag = "unset" THEN {"no_numbering_flag"}
                     ELSE IF p_flag = "false" \/ p_structured = <<>> THEN {"none"}
                     ELSE RaisesOf(Step4Calls) :
          /\ p_structured' =
                IF p_flag # "true" \/ p_structured = <<>> THEN p_structured
                ELSE RunChain(p_structured, Step4Calls, raised, p_structured)
          /\ p_hist' = Staged("Step 4", p_structured, p_structured', raised)
          /\ EndOfBlock("Step 4", raised, "step5", p_data, p_tmp, p_attempted, FALSE)
    /\ UNCHANGED <<p_kind, p_doc, p_flag, p_ftoc, p_leveled, p_record>>
    /\ UNCHANGED exceptPipe

\* Step 5: key normalization, numbering repair, title removal
Step5 ==
    /\ p_pc = "step5"
    /\ \E raised \in IF p_structured = <<>> THEN {"none"} ELSE RaisesOf(Step5Calls) :
          /\ p_structured' =
                IF p_structured = <<>> THEN <<>>
                ELSE RunChain(p_structured, Step5Calls, raised, p_structured)
          /\ p_hist' = Staged("Step 5", p_structured, p_structured', raised)
          /\ EndOfBlock("Step 5", raised, "step6", p_data, p_tmp, p_attempted, FALSE)
    /\ UNCHANGED <<p_kind, p_doc, p_flag, p_ftoc, p_leveled, p_record>>
    /\ UNCHANGED exceptPipe

\* Step 6: title reconstruction in numbering-trusted mode
Step6 ==
    /\ p_pc = "step6"
    /\ \E raised \in IF p_flag = "unset" THEN {"no_numbering_flag"}
                     ELSE IF p_flag = "true" \/ p_structured = <<>> THEN {"none"}
                     ELSE RaisesOf(<<"process_titles_in_one_step">>) :
          /\ p_structured' =
                IF p_flag # "false" \/ p_structured = <<>> THEN p_structured
                ELSE RunChain(p_structured, <<"process_titles_in_one_step">>,
                              raised, p_structured)
          /\ p_hist' = Staged("Step 6", p_structured, p_structured', raised)
          /\ EndOfBlock("Step 6", raised, "step7", p_data, p_tmp, p_attempted, FALSE)
    /\ UNCHANGED <<p_kind, p_doc, p_flag, p_ftoc, p_leveled, p_record>>
    /\ UNCHANGED exceptPipe

\* Step 7: the Tree Builder; leveled_text starts as {}
Step7 ==
    /\ p_pc = "step7"
    /\ \E raised \in IF p_structured = <<>> THEN {"none"} ELSE RaisesOf(Step7Calls) :
          /\ p_leveled' =
                IF p_structured = <<>> THEN <<>>
                ELSE RunChain(p_structured, Step7Calls, raised, <<>>)
          /\ p_hist' = Staged("Step 7", p_structured, p_leveled', raised)
          /\ EndOfBlock("Step 7", raised, "populate", p_data, p_tmp, p_attempted, FALSE)
    /\ UNCHANGED <<p_kind, p_doc, p_flag, p_ftoc, p_structured, p_record>>
    /\ UNCHANGED exceptPipe

\* data["metadata"], data["leveled_text"], data["processed_text"],
\* data["cleaned_text"] are assigned in this order inside one try.
Populate ==
    /\ p_pc = "populate"
    /\ \E raised \in CaptureRaises \cup {"extract_metadata"} :
          EndOfBlock("Populate", raised, "save",
              IF raised = "extract_metadata" THEN p_data
              ELSE [metadata |-> <<"doc.metadata">>,
                    leveled_text |-> p_leveled,
                    processed_text |-> p_structured,
                    cleaned_text |-> IF raised = "none"
                                     THEN <<"extract_pdf_textand_clean">>
                                     ELSE p_data.cleaned_text],
              IF raised = "extract_metadata" THEN p_tmp ELSE tmp_after(raised),
              IF raised = "extract_metadata" THEN {"metadata"}
              ELSE {"metadata", "cleaned_text"},
              raised \in {"fitz.open", "page.get_text"})
    /\ UNCHANGED <<p_kind, p_doc, p_flag, p_ftoc, p_structured, p_leveled,
                   p_record, p_hist>>
    /\ UNCHANGED exceptPipe

\* Step 8: the record is built, the JSON file is written (a failure is logged),
\* the record is returned.
Save ==
    /\ p_pc = "save"
    /\ \E raised \in {"none", "json.dump"} :
          p_log' = IF raised = "none" THEN p_log ELSE Append(p_log, "Step 8")
    /\ p_record' = ordered_data(p_data)
    /\ p_pc' = "returned"
    /\ UNCHANGED <<p_kind, p_doc, p_tmp, p_flag, p_ftoc, p_structured, p_leveled,
                   p_data, p_hist, p_attempted, p_outcome, p_raised, p_source_error>>
    /\ UNCHANGED exceptPipe

\* process_pdf prints that the extraction completed and ends.
Finish ==
    /\ p_pc = "returned"
    /\ p_pc' = "done"
    /\ p_outcome' = "completed"
    /\ UNCHANGED <<p_kind, p_doc, p_tmp, p_flag, p_ftoc, p_structured, p_leveled,
                   p_data, p_record, p_log, p_hist, p_attempted, p_raised,
                   p_source_error>>
    /\ UNCHANGED exceptPipe

PipeNext ==
    \/ Construct
    \/ Step1 \/ Step2 \/ Step3 \/ Step4 \/ Step5 \/ Step6 \/ Step7
    \/ Populate
    \/ Save
    \/ Finish

---------------------------------------------------------------------------
(* Hierarchical Tree Builder                                               *)

\* A value of the tree: a str, a dict of <<key, value>> pairs, or (where
\* replace_strings_with_dicts has made a dict its own child) a reference back
\* to the enclosing dict of that key.
Str(text) == [kind |-> "str", text |-> text, items |-> <<>>]
DictOf(items) == [kind |-> "dict", text |-> <<>>, items |-> items]
SelfRef(key) == [kind |-> "ref", text |-> key, items |-> <<>>]
IsStr(v) == v.kind = "str"
IsDict(v) == v.kind = "dict"

LevelWord == <<"l", "e", "v", "e", "l", " ">>
ForWord == <<"f", "o", "r">>
Introduction == <<"i", "n", "t", "r", "o", "d", "u", "c", "t", "i", "o", "n">>

\* numbering_pattern ^(\d+(\.\d+)*\.) : the end offset of group 1, or -1.
\* When the greedy dotted run is not followed by a dot, the match backtracks
\* over its last component ("1.2 x" gives "1.").
NumberingPrefixEnd(title) ==
    LET e == AfterDottedNumber(title, 0)
    IN  IF e = -1 THEN -1
        ELSE IF e < Len(title) /\ title[e + 1] = "." THEN e + 1
        ELSE LET dots == {i \in 1..e : title[i] = "."}
             IN  IF dots = {} THEN -1 ELSE SetMax(dots)

\* numbering = match.group(1).rstrip('.')
numbering_of_title(title) == SubSeq(title, 1, NumberingPrefixEnd(title) - 1)

\* parent_numbering = '.'.join(numbering.split('.')[:-1])
parent_numbering(numbering) ==
    LET dots == {i \in 1..Len(numbering) : numbering[i] = "."}
    IN  IF dots = {} THEN <<>> ELSE SubSeq(numbering, 1, SetMax(dots) - 1)

\* parent_level = numbering.count('.') + 1
parent_level(numbering) ==
    Cardinality({i \in 1..Len(numbering) : numbering[i] = "."}) + 1

\* "level 1", or f"level {parent_level} for {parent_numbering}"
level_key(title) ==
    LET numbering == numbering_of_title(title)
    IN  IF parent_numbering(numbering) = <<>> THEN LevelWord \o <<"1">>
        ELSE LevelWord \o IntToStr(parent_level(numbering))
             \o <<" ">> \o ForWord \o <<" ">> \o parent_numbering(numbering)

\* The loop of organize_by_levels_with_grouping over the first n items:
\* organized (a defaultdict of dicts) and unnumbered.
RECURSIVE OrganizedUpTo(_, _)
OrganizedUpTo(input_dict, n) ==
    IF n = 0 THEN [organized |-> <<>>, unnumbered |-> <<>>]
    ELSE LET before == OrganizedUpTo(input_dict, n - 1)
             title == input_dict[n][1]
             content == input_dict[n][2]
         IN  IF NumberingPrefixEnd(title) = -1
             THEN [before EXCEPT !.unnumbered = DictSet(@, title, content)]
             ELSE [before EXCEPT !.organized =
                      DictSet(@, level_key(title),
                              DictSet(DictGet(@, level_key(title)), title, content))]

organize_by_levels_with_grouping(input_dict) ==
    LET r == OrganizedUpTo(input_dict, Len(input_dict))
    IN  IF r.unnumbered # <<>>
        THEN DictSet(r.organized, LevelWord \o <<"0">>, r.unnumbered)
        ELSE r.organized

\* for title, content in group.items(): d[title] = content   (first n items)
RECURSIVE SetAll(_, _, _)
SetAll(d, group, n) ==
    IF n = 0 THEN d
    ELSE DictSet(SetAll(d, group, n - 1), group[n][1], Str(group[n][2]))

\* The loop of restructure_levels over the keys "level 1".."level 4..." :
\* every title of these groups is put at the root of new_dict.
RECURSIVE TopLevelUpTo(_, _, _)
TopLevelUpTo(input_dict, new_dict, n) ==
    IF n = 0 THEN new_dict
    ELSE LET before == TopLevelUpTo(input_dict, new_dict, n - 1)
             key == input_dict[n][1]
             value == input_dict[n][2]
         IN  IF \E i \in 1..4 : StartsWithAt(key, LevelWord \o IntToStr(i), 0)
             THEN SetAll(before, value, Len(value))
             ELSE before

\* nested_key.split("for")[-1]
AfterLastFor(key) ==
    LET hits == {i \in 0..(Len(key) - 3) : StartsWithAt(key, ForWord, i)}
    IN  IF hits = {} THEN key ELSE SubSeq(key, SetMax(hits) + 4, Len(key))

\* add_nested_levels(nested_key, nested_dict) on new_dict. The contents of a
\* group are str (the groups come from a flat mapping), so the branches for
\* a dict content are never taken.
add_nested_levels(new_dict, nested_key, nested_dict) ==
    LET parent_key == PyStrip(AfterLastFor(nested_key))
        matching == {i \in 1..Len(new_dict) :
                        StartsWithAt(new_dict[i][1], parent_key, 0)}
        parent_title == IF matching = {} THEN <<>> ELSE new_dict[SetMin(matching)][1]
    IN  IF parent_title # <<>>
        THEN LET parent == DictGet(new_dict, parent_title)
                 as_dict == IF IsStr(parent)
                            THEN <<<<Introduction, parent>>>>
                            ELSE parent.items
             IN  DictSet(new_dict, parent_title,
                         DictOf(SetAll(as_dict, nested_dict, Len(nested_dict))))
        ELSE IF nested_dict # <<>>
             THEN DictSet(new_dict, nested_key,
                          DictOf(SetAll(<<>>, nested_dict, Len(nested_dict))))
             ELSE new_dict

\* The last loop of restructure_levels: add_nested_levels for every key with "for"
RECURSIVE NestedUpTo(_, _, _)
NestedUpTo(input_dict, new_dict, n) ==
    IF n = 0 THEN new_dict
    ELSE LET before == NestedUpTo(input_dict, new_dict, n - 1)
         IN  IF PyFind(input_dict[n][1], ForWord, 0) # -1
             THEN add_nested_levels(before, input_dict[n][1], input_dict[n][2])
             ELSE before

restructure_levels(input_dict) ==
    LET level0 == DictGet(input_dict, LevelWord \o <<"0">>)
        roots == TopLevelUpTo(input_dict, SetAll(<<>>, level0, Len(level0)),
                              Len(input_dict))
    IN  NestedUpTo(input_dict, roots, Len(input_dict))

\* flatten_dict: reference_mapping[key] is a dict. In the output of
\* restructure_levels only root entries hold dicts.
reference_is_dict(data, key) == DictHas(data, key) /\ IsDict(DictGet(data, key))

\* replace_strings_with_dicts: a str child whose key refers to a dict becomes
\* that dict itself (the same object, so what is replaced inside it later is
\* seen here too); path holds the keys of the enclosing dicts.
RECURSIVE Replaced(_, _, _)
Replaced(data, value, path) ==
    IF ~IsDict(value) THEN value
    ELSE DictOf([i \in 1..Len(value.items) |->
            LET key == value.items[i][1]
                child == value.items[i][2]
            IN  IF IsStr(child) /\ reference_is_dict(data, key)
                THEN IF key \in path THEN <<key, SelfRef(key)>>
                     ELSE <<key, Replaced(data, DictGet(data, key), path \cup {key})>>
                ELSE <<key, Replaced(data, child, path)>>])

\* filter_root_keys: the test on one root key
\*   not re.match(r'\d+(\.\d+)+', key) and
\*   (re.match(r'\d+\.$', key) or not re.match(r'\d+', key)
\*    or re.match(r'^\d+\..*$', key) and not re.match(r'\d+\.\d+\.', key))
root_key_kept(key) ==
    LET d == DigitRun(key, 0)
        dotted == d > 0 /\ d < Len(key) /\ key[d + 1] = "."
        two_components == dotted /\ DigitRun(key, d + 1) > 0
        number_dot_end ==
            dotted /\ (d + 1 = Len(key) \/ (d + 2 = Len(key) /\ key[d + 2] = "\n"))
        rest_one_line ==
            dotted /\ \A i \in (d + 2)..(Len(key) - 1) : key[i] # "\n"
        two_dotted ==
            two_components
            /\ LET e == d + 1 + DigitRun(key, d + 1)
               IN  e < Len(key) /\ key[e + 1] = "."
    IN  /\ ~two_components
        /\ \/ number_dot_end
           \/ d = 0
           \/ rest_one_line /\ ~two_dotted

resolve_and_filter_dict(data) ==
    LET Kept(entry) == root_key_kept(entry[1])
        kept == SelectSeq(data, Kept)
    IN  [i \in 1..Len(kept) |->
            <<kept[i][1], Replaced(data, kept[i][2], {kept[i][1]})>>]

---------------------------------------------------------------------------
(* Hierarchical Tree Builder: inputs and steps                             *)

MaxTreeTitles == 3
TreePrefixPool ==
    { <<>>,
      <<"1", ".", " ">>,
      <<"1", ".", "1", ".", " ">>,
      <<"1", ".", "1", ".", "1", ".", " ">>,
      <<"1", ".", "2", ".", " ">>,
      <<"2", ".", " ">>,
      <<"2", ".", "1", ".", " ">>,
      <<"1", "0", ".", " ">>,
      <<"1", " ">>,
      <<"1", ".", "1", " ">>,
      <<"1", ".", "1", ".", "1", ".", "1", ".", "1", ".", " ">> }

\* Flat mappings of up to maxTitles titles, title i ending in letter i.
TreeInputs(maxTitles) ==
    UNION { {[i \in 1..n |-> <<pre[i] \o <<Letters[i]>>, <<"v", Letters[i]>>>>] :
                pre \in [1..n -> TreePrefixPool]}
            : n \in 1..maxTitles }

TreeIdle ==
    /\ t_pc = "idle"
    /\ t_flat = <<>>
    /\ t_organized = <<>>
    /\ t_restructured = <<>>
    /\ t_tree = <<>>

TreeInit ==
    /\ t_pc = "flat"
    /\ t_flat \in TreeInputs(MaxTreeTitles)
    /\ t_organized = <<>>
    /\ t_restructured = <<>>
    /\ t_tree = <<>>

\* Step 7: leveled_text = self.organize_by_levels_with_grouping(...)
Organize ==
    /\ t_pc = "flat"
    /\ t_organized' = organize_by_levels_with_grouping(t_flat)
    /\ t_pc' = "organized"
    /\ UNCHANGED <<t_flat, t_restructured, t_tree>>
    /\ UNCHANGED exceptTree

\* Step 7: leveled_text = self.restructure_levels(leveled_text)
Restructure ==
    /\ t_pc = "organized"
    /\ t_restructured' = restructure_levels(t_organized)
    /\ t_pc' = "restructured"
    /\ UNCHANGED <<t_flat, t_organized, t_tree>>
    /\ UNCHANGED exceptTree

\* Step 7: leveled_text = self.resolve_and_filter_dict(leveled_text)
ResolveAndFilter ==
    /\ t_pc = "restructured"
    /\ t_tree' = resolve_and_filter_dict(t_restructured)
    /\ t_pc' = "tree"
    /\ UNCHANGED <<t_flat, t_organized, t_restructured>>
    /\ UNCHANGED exceptTree

TreeNext ==
    \/ Organize
    \/ Restructure
    \/ ResolveAndFilter

---------------------------------------------------------------------------
(* TOC Rectifier: numbering recovery (search_and_replace_numbered_titles)  *)

UpperSeq == <<"A", "B", "C", "D", "E", "F", "G", "H", "I", "J", "K", "L", "M",
              "N", "O", "P", "Q", "R", "S", "T", "U", "V", "W", "X", "Y", "Z">>
LowerSeq == <<"a", "b", "c", "d", "e", "f", "g", "h", "i", "j", "k", "l", "m",
              "n", "o", "p", "q", "r", "s", "t", "u", "v", "w", "x", "y", "z">>
Lower(c) ==
    IF c \in Uppers THEN LowerSeq[CHOOSE k \in 1..26 : UpperSeq[k] = c] ELSE c

\* A regular expression is a sequence of tokens <<kind, character>>:
\* "digits" is \d+, "spaces" is \s*, "any" is an unescaped dot, "lit" is one
\* character. MatchesAt is re.match with re.IGNORECASE, from token k of pat at
\* the 0-based offset pos of text, with backtracking over the two repetitions.
RECURSIVE MatchesAt(_, _, _, _)
MatchesAt(pat, k, text, pos) ==
    IF k > Len(pat) THEN TRUE
    ELSE IF pat[k][1] = "digits"
    THEN \E n \in 1..DigitRun(text, pos) : MatchesAt(pat, k + 1, text, pos + n)
    ELSE IF pat[k][1] = "spaces"
    THEN \E n \in 0..(SkipSpaces(text, pos) - pos) :
            MatchesAt(pat, k + 1, text, pos + n)
    ELSE IF pat[k][1] = "any"
    THEN pos < Len(text) /\ text[pos + 1] # "\n"
         /\ MatchesAt(pat, k + 1, text, pos + 1)
    ELSE pos < Len(text) /\ Lower(text[pos + 1]) = Lower(pat[k][2])
         /\ MatchesAt(pat, k + 1, text, pos + 1)

\* numbering_patterns[k - 1]: \d+, \d+\., \d+\.\d+, ... and the length of its
\* source text (3 for \d+, 2 for \.)
NumberingPatterns == 7
numbering_pattern(k) ==
    [j \in 1..k |-> IF j % 2 = 1 THEN <<"digits", "">> ELSE <<"lit", ".">>]
numbering_pattern_len(k) == 3 * ((k + 1) \div 2) + 2 * (k \div 2)

\* title.split()
RECURSIVE WordsFrom(_, _)
WordsFrom(s, i) ==
    LET j == SkipSpaces(s, i)
        ends == {k \in (j + 1)..Len(s) : IsSpace(s[k])}
        e == IF ends = {} THEN Len(s) ELSE SetMin(ends) - 1
    IN  IF j >= Len(s) THEN <<>>
        ELSE <<SubSeq(s, j + 1, e)>> \o WordsFrom(s, e)

Pow2(m) == IF m = 0 THEN 1 ELSE IF m = 1 THEN 2 ELSE IF m = 2 THEN 4 ELSE 8

\* The first n words joined as the c-th space_combination of
\* product([True, False], repeat=m) says (c counted from 0, True first).
RECURSIVE JoinWords(_, _, _, _)
JoinWords(words, c, m, n) ==
    IF n = 1 THEN words[1]
    ELSE JoinWords(words, c, m, n - 1)
         \o (IF (c \div Pow2(m - (n - 1))) % 2 = 0 THEN <<" ">> ELSE <<>>)
         \o words[n]

\* A plain variation used as a pattern: its dots are unescaped. (Titles hold
\* letters, digits, spaces and dots, no other metacharacter.)
PlainPattern(v) ==
    [i \in 1..Len(v) |-> IF v[i] = "." THEN <<"any", "">> ELSE <<"lit", v[i]>>]
\* re.escape(v) and the length of its source text: every character that is
\* not a letter or a digit takes a backslash.
EscapedLen(v) ==
    Len(v) + Cardinality({i \in 1..Len(v) :
                 v[i] \notin Digits \cup Uppers \cup {LowerSeq[k] : k \in 1..26}})
\* '.'.join(['\\d+'] * depth) + r'\s*' + re.escape(variation)
NumberedPattern(v, depth) ==
    [j \in 1..(2 * depth - 1) |->
        IF j % 2 = 1 THEN <<"digits", "">> ELSE <<"any", "">>]
    \o <<<<"spaces", "">>>> \o [i \in 1..Len(v) |-> <<"lit", v[i]>>]

\* generate_title_variations(title), for a title of 1 to 4 words: the plain
\* variations, then 4 numbered ones for each; every variation with the
\* length of its source text.
generate_title_variations(title) ==
    LET words == WordsFrom(title, 0)
        m == Len(words) - 1
        plain == [c \in 1..Pow2(m) |-> JoinWords(words, c - 1, m, Len(words))]
    IN  [c \in 1..Pow2(m) |->
            [tokens |-> PlainPattern(plain[c]), srclen |-> Len(plain[c])]]
        \o [k \in 1..(4 * Pow2(m)) |->
              LET v == plain[((k - 1) \div 4) + 1]
                  depth == ((k - 1) % 4) + 1
              IN  [tokens |-> NumberedPattern(v, depth),
                   srclen |-> (3 * depth + (depth - 1)) + 3 + EscapedLen(v)]]

\* The offset scan: the lowest start_index at which the pattern matches, or -1
match_position_of(pat, page_text) ==
    LET hits == {i \in 0..(Len(page_text) - 1) : MatchesAt(pat, 1, page_text, i)}
    IN  IF hits = {} THEN -1 ELSE SetMin(hits)

---------------------------------------------------------------------------
(* Numbering recovery: inputs and steps                                    *)

MaxSearchPages == 2
MaxSearchToc == 2

\* Titles of formatted_toc as the TOC loop leaves them in no-numbering mode.
SearchTitlePool == { <<"a">>, <<"a", " ", "b">> }
SearchPagePool ==
    { <<"1", ".", "2", " ", "a", " ", "x", "\n">>,
      <<"3", " ", "a", " ", "b", "\n">>,
      <<"x", " ", "2", ".", "1", " ", "A", "b", "\n">>,
      <<"b", " ", "x", "\n">> }

SearchInputs(maxPages) ==
    UNION { {[pages |-> pages, toc |-> toc] :
                pages \in [1..n -> SearchPagePool],
                toc \in UNION { {[i \in 1..k |-> [level |-> 1, title |-> t[i],
                                                  page |-> pg[i]]] :
                                    t \in [1..k -> SearchTitlePool],
                                    pg \in {f \in [1..k -> 1..n] :
                                        \A i \in 1..(k - 1) : f[i] <= f[i + 1]}}
                                : k \in 1..MaxSearchToc }}
            : n \in 1..maxPages }

SearchIdle ==
    /\ q_pc = "idle"
    /\ q_doc = <<>>
    /\ q_toc = <<>>
    /\ q_i = 0
    /\ q_n = 0
    /\ q_v = 0
    /\ q_p = 0
    /\ q_found = FALSE

\* search_and_replace_numbered_titles is entered with the first TOC entry:
\* found_match = False, the first numbering pattern, the first variation, the
\* entry's start page. (self.processed_text is {} as __init__ left it, so the
\* update at lines 314-315 never applies.)
SearchInit ==
    /\ q_pc = "search"
    /\ q_doc \in SearchInputs(MaxSearchPages)
    /\ q_toc = q_doc.toc
    /\ q_i = 1
    /\ q_n = 1
    /\ q_v = 1
    /\ q_p = q_doc.toc[1].page - 1
    /\ q_found = FALSE

\* original_title, start_page, end_page and title_variations of entry q_i
original_title == q_doc.toc[q_i].title
search_start_page(i) == q_doc.toc[i].page - 1
search_end_page ==
    IF q_i + 1 <= Len(q_toc) THEN q_toc[q_i + 1].page - 1 ELSE Len(q_doc.pages) - 1
title_variations == generate_title_variations(original_title)

\* pattern = f"{numbering}\\s*{title_variant}", the page text, the match
search_pattern ==
    numbering_pattern(q_n) \o <<<<"spaces", "">>>> \o title_variations[q_v].tokens
search_page_text == clean_text(NoCleanup, q_doc.pages[q_p + 1])
match_position == match_position_of(search_pattern, search_page_text)
\* page_text[match_position:match_position + len(numbering) + len(title_variant)],
\* then clean_title_suffix (no_numbering_flag is True here)
numbered_title ==
    clean_title_suffix(
        PySlice(search_page_text, match_position,
                match_position + numbering_pattern_len(q_n)
                    + title_variations[q_v].srclen))

\* Where the loops go after one pass of the page loop body: the next page;
\* after the page loop the next variation, unless found_match is set; then the
\* next numbering pattern; then the next TOC entry; then the return.
LoopsAdvance(hit, found) ==
    IF ~hit /\ q_p < search_end_page
    THEN /\ q_p' = q_p + 1
         /\ UNCHANGED <<q_pc, q_i, q_n, q_v>>
         /\ q_found' = found
    ELSE IF ~found /\ q_v < Len(title_variations)
    THEN /\ q_v' = q_v + 1
         /\ q_p' = search_start_page(q_i)
         /\ UNCHANGED <<q_pc, q_i, q_n>>
         /\ q_found' = found
    ELSE IF q_n < NumberingPatterns
    THEN /\ q_n' = q_n + 1
         /\ q_v' = 1
         /\ q_p' = search_start_page(q_i)
         /\ UNCHANGED <<q_pc, q_i>>
         /\ q_found' = found
    ELSE IF q_i < Len(q_toc)
    THEN /\ q_i' = q_i + 1
         /\ q_n' = 1
         /\ q_v' = 1
         /\ q_p' = search_start_page(q_i + 1)
         /\ q_found' = FALSE
         /\ UNCHANGED q_pc
    ELSE /\ q_pc' = "done"
         /\ q_found' = found
         /\ UNCHANGED <<q_i, q_n, q_v, q_p>>

\* One pass of the page loop body in which the pattern matches on the page:
\* the entry's title is rewritten, found_match is set, the page loop is left.
SearchHit ==
    /\ q_pc = "search"
    /\ match_position # -1
    /\ q_toc' = [q_toc EXCEPT ![q_i].title = numbered_title]
    /\ LoopsAdvance(TRUE, TRUE)
    /\ UNCHANGED q_doc
    /\ UNCHANGED exceptSearch

\* One pass of the page loop body in which the pattern matches nowhere.
SearchMiss ==
    /\ q_pc = "search"
    /\ match_position = -1
    /\ LoopsAdvance(FALSE, q_found)
    /\ UNCHANGED <<q_doc, q_toc>>
    /\ UNCHANGED exceptSearch

SearchNext ==
    \/ SearchHit
    \/ SearchMiss

---------------------------------------------------------------------------
(* Title reconstruction in numbering-trusted mode: remove_title_from_text  *)
(* and process_titles_in_one_step (steps 5 and 6 of extract_all)           *)

\* s.lstrip()
PyLStrip(s) == PySliceFrom(s, SkipSpaces(s, 0))

\* remove_numbering: re.sub(r'^\d+(\.\d+)*\.\s*', '', title).strip().  The dot
\* after the dotted number is needed: when the number is not followed by one,
\* the last group \.\d+ is given back and its dot is taken instead.
remove_numbering(title) ==
    LET e == AfterDottedNumber(title, 0)
        dots == IF e = -1 THEN {} ELSE {k \in 1..e : title[k] = "."}
    IN  IF e = -1 THEN PyStrip(title)
        ELSE IF e < Len(title) /\ title[e + 1] = "."
        THEN PyStrip(PySliceFrom(title, SkipSpaces(title, e + 1)))
        ELSE IF dots # {}
        THEN PyStrip(PySliceFrom(title, SkipSpaces(title, SetMax(dots))))
        ELSE PyStrip(title)

\* find_and_remove: everything up to and including the first occurrence of
\* the title is removed, the rest is lstripped; no occurrence, no change.
find_and_remove(text, title) ==
    LET i == PyFind(text, title, 0)
    IN  IF i = -1 THEN text ELSE PyLStrip(PySliceFrom(text, i + Len(title)))

\* remove_title_from_text: the same keys, every body without its title
remove_title_from_text(input_dict) ==
    [i \in 1..Len(input_dict) |->
        <<input_dict[i][1],
          find_and_remove(input_dict[i][2], remove_numbering(input_dict[i][1]))>>]

\* Step 1 of process_titles_in_one_step: re.match(r"^(\d+(\.\d+)*)", title),
\* the numbering of a TOC title with a dot at its end, "" when there is none
toc_numbering(title) ==
    LET e == AfterDottedNumber(title, 0)
        numbering == IF e = -1 THEN <<>> ELSE SubSeq(title, 1, e)
    IN  IF numbering = <<>> THEN <<>>
        ELSE IF numbering[Len(numbering)] # "." THEN numbering \o <<".">>
        ELSE numbering

\* Step 2: re.match(r"^\s*(\d+(\.\d+)*\.?\s*)?(.*)", title).group(3).strip(),
\* the text of a key of the mapping without its numbering
key_text(key) ==
    LET j == SkipSpaces(key, 0)
        e1 == AfterDottedNumber(key, j)
        e2 == IF e1 # -1 /\ e1 < Len(key) /\ key[e1 + 1] = "." THEN e1 + 1 ELSE e1
    IN  IF e1 = -1 THEN PyStrip(RestOfLine(key, j))
        ELSE PyStrip(RestOfLine(key, SkipSpaces(key, e2)))

\* Step 3: f"{numbering} {text}".strip(), or the text alone
reconstructed_title(numbering, text) ==
    IF numbering # <<>> THEN PyStrip(numbering \o <<" ">> \o text) ELSE text

\* Step 4: the dict built from zip(reconstructed_titles, original_dict.values()):
\* the n-th TOC numbering goes with the n-th key and the n-th body, as far as
\* the shorter of the two lists reaches.
RECURSIVE RetitledUpTo(_, _, _)
RetitledUpTo(original_dict, input_list, n) ==
    IF n = 0 THEN <<>>
    ELSE DictSet(RetitledUpTo(original_dict, input_list, n - 1),
                 reconstructed_title(toc_numbering(input_list[n].title),
                                     key_text(original_dict[n][1])),
                 original_dict[n][2])

Min(a, b) == IF a <= b THEN a ELSE b

process_titles_in_one_step(original_dict, input_list) ==
    RetitledUpTo(original_dict, input_list, Min(Len(original_dict), Len(input_list)))

\* TOC titles of a document in numbering-trusted mode: a numbering prefix (or
\* none) and a title text; titles may repeat.
MaxRetitle == 3
RetitlePrefixPool ==
    { <<>>,
      <<"1", ".", " ">>,
      <<"1", ".", "1", ".", " ">>,
      <<"1", ".", "2", ".", " ">>,
      <<"2", ".", "1", ".", " ">> }
RetitleTitlePool == {pre \o <<t>> : pre \in RetitlePrefixPool, t \in {"a", "b"}}

RetitleTocs(maxToc) ==
    UNION { {[i \in 1..n |-> [level |-> 1, title |-> t[i], page |-> i]] :
                t \in {f \in [1..n -> RetitleTitlePool] :
                          \E i \in 1..n : HasNumberingPrefix(f[i])}}
            : n \in 1..maxToc }

\* The section mapping of the first n TOC entries as steps 2 and 3 leave it:
\* sections[title] = section_text, one key per distinct title, in TOC
\* order; the body of entry n is its title followed by a text of its own.
BodyMarks == <<"w", "x", "y", "z">>
RECURSIVE SectionsOf(_, _)
SectionsOf(toc, n) ==
    IF n = 0 THEN <<>>
    ELSE DictSet(SectionsOf(toc, n - 1), toc[n].title,
                 toc[n].title \o <<" ", BodyMarks[n]>>)

RetitleIdle ==
    /\ x_pc = "idle"
    /\ x_toc = <<>>
    /\ x_sections = <<>>
    /\ x_repaired = <<>>
    /\ x_final = <<>>

RetitleInit ==
    /\ x_pc = "sectioned"
    /\ x_toc \in RetitleTocs(MaxRetitle)
    /\ x_sections = SectionsOf(x_toc, Len(x_toc))
    /\ x_repaired = <<>>
    /\ x_final = <<>>

\* Step 5 of extract_all: normalize_keys_with_numbering, then
\* find_and_replace_numberings, then remove_title_from_text; when the
\* Repairer raises, structured_processed_text stays as the normalizer left it.
TrustedStep5 ==
    /\ x_pc = "sectioned"
    /\ x_sections # <<>>
    /\ LET normalized == normalize_keys_with_numbering(x_sections)
           repaired == find_and_replace_numberings(normalized)
       IN  x_repaired' = IF repaired.raised THEN normalized
                         ELSE remove_title_from_text(repaired.value)
    /\ x_pc' = "repaired"
    /\ UNCHANGED <<x_toc, x_sections, x_final>>
    /\ UNCHANGED exceptRetitle

\* Step 6 of extract_all, numbering-trusted mode:
\* process_titles_in_one_step(structured_processed_text, self.formatted_toc)
TrustedStep6 ==
    /\ x_pc = "repaired"
    /\ x_repaired # <<>>
    /\ x_final' = process_titles_in_one_step(x_repaired, x_toc)
    /\ x_pc' = "retitled"
    /\ UNCHANGED <<x_toc, x_sections, x_repaired>>
    /\ UNCHANGED exceptRetitle

RetitleNext == TrustedStep5 \/ TrustedStep6

---------------------------------------------------------------------------

(* Specifications                                                          *)

Init == PipeInit /\ RefIdle /\ SegIdle /\ CodIdle /\ NumIdle /\ TreeIdle /\ SearchIdle /\ RetitleIdle
Next == PipeNext
Spec == Init /\ [][Next]_vars

InitRefine == RefInit /\ SegIdle /\ PipeIdle /\ CodIdle /\ NumIdle /\ TreeIdle /\ SearchIdle /\ RetitleIdle
SpecRefine == InitRefine /\ [][RefNext]_vars

InitSegment == SegInit /\ RefIdle /\ PipeIdle /\ CodIdle /\ NumIdle /\ TreeIdle /\ SearchIdle /\ RetitleIdle
SpecSegment == InitSegment /\ [][SegNext]_vars

InitCodec == CodInit /\ RefIdle /\ SegIdle /\ PipeIdle /\ NumIdle /\ TreeIdle /\ SearchIdle /\ RetitleIdle
SpecCodec == InitCodec /\ [][CodNext]_vars

InitRepair == NumInit /\ RefIdle /\ SegIdle /\ PipeIdle /\ CodIdle /\ TreeIdle /\ SearchIdle /\ RetitleIdle
SpecRepair == InitRepair /\ [][NumNext]_vars

InitRepairDeep ==
    /\ NumInitDeep /\ RefIdle /\ SegIdle /\ PipeIdle /\ CodIdle /\ TreeIdle
    /\ SearchIdle /\ RetitleIdle
SpecRepairDeep == InitRepairDeep /\ [][NumNext]_vars

InitTree ==
    /\ TreeInit /\ RefIdle /\ SegIdle /\ PipeIdle /\ CodIdle /\ NumIdle
    /\ SearchIdle /\ RetitleIdle
SpecTree == InitTree /\ [][TreeNext]_vars

InitSearch == SearchInit /\ RefIdle /\ SegIdle /\ PipeIdle /\ CodIdle /\ NumIdle /\ TreeIdle /\ RetitleIdle
SpecSearch == InitSearch /\ [][SearchNext]_vars

InitRetitle ==
    /\ RetitleInit /\ RefIdle /\ SegIdle /\ PipeIdle /\ CodIdle /\ NumIdle
    /\ TreeIdle /\ SearchIdle
SpecRetitle == InitRetitle /\ [][RetitleNext]_vars

---------------------------------------------------------------------------
(* Claims about the Pipeline Orchestrator (specification Spec)             *)

FieldOrder == <<"metadata", "leveled_text", "processed_text", "cleaned_text">>
Logged == {p_log[k] : k \in 1..Len(p_log)}
ExtractAllCalled == p_hist # <<>>

\* C1: for a constructed extractor extract_all never raises: whatever stages
\* fail, the run goes on to the end and returns a record whose fields are
\* exactly metadata, leveled_text, processed_text, cleaned_text, in this order.
C1_AlwaysFourFieldRecord ==
    /\ ~p_raised
    /\ (ExtractAllCalled /\ p_pc # "done") => ENABLED Next
    /\ (ExtractAllCalled /\ p_pc = "done") => p_outcome = "completed"
    /\ p_pc \in {"returned", "done"} /\ ExtractAllCalled
          => DictKeys(p_record) = FieldOrder

\* extract_all has returned after the Refiner, the normalization step, the
\* Tree Builder, the captures and the save all failed.
C1_Witness ==
    /\ p_pc = "returned"
    /\ {"Step 3", "Step 5", "Step 7", "Populate", "Step 8"} \subseteq Logged
    /\ DictKeys(p_record) = FieldOrder

\* C2: when the document could not be opened or read, the worker still ends
\* with the four-field record, in its fallback form: leveled_text and
\* processed_text empty.
C2_SourceErrorYieldsFallbackRecord ==
    (p_pc = "done" /\ p_source_error) =>
        /\ DictKeys(p_record) = FieldOrder
        /\ DictGet(p_record, "leveled_text") = <<>>
        /\ DictGet(p_record, "processed_text") = <<>>

\* C3: a structuring stage that raised left as its output either the empty
\* mapping or exactly what it was given, never something in between; and the
\* run was not aborted: when extract_all returns all seven stages have run.
C3_FailedStageLeavesInputOrEmpty ==
    /\ \A k \in 1..Len(p_hist) :
          p_hist[k].failed => p_hist[k].out \in {<<>>, p_hist[k].in}
    /\ p_pc = "returned" => Len(p_hist) = 7

\* C4: when extract_all returns, both captures (metadata, cleaned text) have
\* been attempted, and the record carries the leveled_text and processed_text
\* that the stages produced.
C4_CapturesIndependent ==
    p_pc = "returned" =>
        /\ p_attempted = {"metadata", "cleaned_text"}
        /\ DictGet(p_record, "leveled_text") = p_leveled
        /\ DictGet(p_record, "processed_text") = p_structured

\* C5: when processing of the document has ended, no handle on the document
\* source is still open.
C5_AllHandlesClosed ==
    p_pc = "done" => p_doc # "open" /\ p_tmp # "open"

---------------------------------------------------------------------------
(* Claims about the whole-document text (SpecSegment)                      *)

SingleEntryOnPageOne == Len(s_doc.toc) = 1 /\ s_doc.toc[1].page = 1

\* The whole-document cleaned text with the configured texts_to_remove deleted.
WholeTextWithoutBoilerplate ==
    clean_text(s_config,
        RemoveTexts(extract_pdf_textand_clean(s_doc, s_config),
                    s_config.texts_to_remove, Len(s_config.texts_to_remove)))

\* C18: for a TOC with a single entry on page 1, in either mode of the
\* Segmenter the output has exactly one section, whose body is the
\* whole-document cleaned text with the configured texts_to_remove deleted.
C18_SingleEntryIsWholeText ==
    (s_pc \in {"trusted", "nonum"} /\ SingleEntryOnPageOne) =>
        /\ Len(s_sections) = 1
        /\ s_sections[1][2] = WholeTextWithoutBoilerplate

\* The same in numbering-trusted mode for pages with no text in the header and
\* footer bands: this holds.
C18_TrustedWithoutBands ==
    (/\ s_pc = "trusted"
     /\ SingleEntryOnPageOne
     /\ \A p \in 1..Len(s_doc.pages) :
           s_doc.pages[p].top = <<>> /\ s_doc.pages[p].bottom = <<>>)
        => /\ Len(s_sections) = 1
           /\ s_sections[1][2] = WholeTextWithoutBoilerplate

---------------------------------------------------------------------------
(* Claims about numbering recovery (SpecSearch)                            *)

\* C20: for each TOC entry the first successful match, in the loop order
\* numbering pattern, variation, page, offset, decides the rewritten title:
\* once found_match is set for the entry, its title is not written again by a
\* later numbering pattern.
C20_FirstMatchDecides ==
    [][(q_pc = "search" /\ q_found) => q_toc'[q_i].title = q_toc[q_i].title]_vars

\* What holds instead: once found_match is set, no further variation of the
\* same numbering pattern is searched; every later numbering pattern is still
\* searched with the first variation.
C20_OnlyFirstVariationAfterHit ==
    (q_pc = "search" /\ q_found) => q_v = 1

---------------------------------------------------------------------------
(* Claims about the Numbering Consistency Repairer (SpecRepair)            *)

NormNumberings == numberings_of(n_norm)
NumberedBefore(j) == {i \in 1..(j - 1) : NormNumberings[i] # <<>>}
PrevNumbering(j) == NormNumberings[SetMax(NumberedBefore(j))]

\* The numbering is in canonical form: it parses, and renders back to itself.
Canonical(numbering) ==
    /\ ~ParseRaises(numbering)
    /\ RenderNumbering(ParseNumbering(numbering)) = numbering

\* The numbering of entry j is not a candidate of the nearest numbered entry
\* before it.
NotACandidate(j) ==
    /\ NormNumberings[j] # <<>>
    /\ NumberedBefore(j) # {}
    /\ ~ParseRaises(PrevNumbering(j))
    /\ NormNumberings[j] \notin generate_next_numberings(PrevNumbering(j))

\* C11: a title whose numbering is not in the candidate-next set of the nearest
\* preceding numbered title is flagged and its key is rewritten, also when it
\* is the last numbered title (1. Intro, 1.1. Background, 2.1. Oops).
C11_IllogicalNumberingRewritten ==
    n_pc = "repaired" =>
        \A j \in 1..Len(n_norm) :
            NotACandidate(j) =>
                /\ ~n_out.raised
                /\ j \in n_flagged
                /\ ~DictHas(n_out.value, n_norm[j][1])

\* Every numbered key has a canonical numbering that is a candidate of the
\* nearest numbered key before it.
AllLogical ==
    \A j \in 1..Len(n_norm) :
        NormNumberings[j] # <<>> =>
            /\ Canonical(NormNumberings[j])
            /\ NumberedBefore(j) # {} =>
                  /\ Canonical(PrevNumbering(j))
                  /\ ParseNumbering(NormNumberings[j])
                        \in NextParts(ParseNumbering(PrevNumbering(j)))

\* Entry j is a sibling of the nearest numbered entry before it that skips
\* ahead by 1 to 9.
SkipsAhead(j) ==
    /\ NormNumberings[j] # <<>>
    /\ NumberedBefore(j) # {}
    /\ Canonical(NormNumberings[j])
    /\ Canonical(PrevNumbering(j))
    /\ LET prev == ParseNumbering(PrevNumbering(j))
           this == ParseNumbering(NormNumberings[j])
       IN  /\ Len(this) = Len(prev)
           /\ SubSeq(this, 1, Len(this) - 1) = SubSeq(prev, 1, Len(prev) - 1)
           /\ this[Len(this)] - prev[Len(prev)] \in 1..9

Unnumbered(key) == AfterDottedNumber(key, 0) = -1
UnnumberedKeys(d) ==
    LET idx == {i \in 1..Len(d) : Unnumbered(d[i][1])}
    IN  [i \in idx |-> d[i][1]]
\* The subsequence of the keys of d that carry no numbering, in order.
RECURSIVE KeysWithout(_, _)
KeysWithout(d, n) ==
    IF n = 0 THEN <<>>
    ELSE IF Unnumbered(d[n][1]) THEN Append(KeysWithout(d, n - 1), d[n])
    ELSE KeysWithout(d, n - 1)

\* C13: a key that carries no numbering is never flagged, and is in the output
\* with the same key, the same value and the same position relative to the
\* other such keys, whatever is repaired around it.
C13_UnnumberedUntouched ==
    n_pc = "repaired" =>
        /\ ~n_out.raised
        /\ \A j \in 1..Len(n_norm) : Unnumbered(n_norm[j][1]) => j \notin n_flagged
        /\ KeysWithout(n_out.value, Len(n_out.value)) = KeysWithout(n_norm, Len(n_norm))

\* The same for the keys that find_and_replace_numberings itself takes as
\* unnumbered (first word not made of digits and dots): this holds.
C13_BlankKeysUntouched ==
    (n_pc = "repaired" /\ ~n_out.raised) =>
        /\ \A j \in 1..Len(n_norm) : NormNumberings[j] = <<>> => j \notin n_flagged
        /\ LET blanks(d) == {k \in 1..Len(d) : numberings_of(d)[k] = <<>>}
           IN  /\ Cardinality(blanks(n_out.value)) = Cardinality(blanks(n_norm))
               /\ \A j \in blanks(n_norm) : \E k \in blanks(n_out.value) :
                     /\ n_out.value[k] = n_norm[j]
                     /\ Cardinality({m \in blanks(n_out.value) : m < k})
                          = Cardinality({m \in blanks(n_norm) : m < j})

---------------------------------------------------------------------------
(* Claims about the Numbering Codec (SpecCodec)                            *)

IncrementLast(token) ==
    SubSeq(token, 1, Len(token) - 1) \o <<token[Len(token)] + 1>>

\* C14: for every numbering token, the token with its last component
\* incremented by 1 is a member of the token's candidate-next set.
C14_IncrementIsCandidate ==
    c_pc \in {"generated", "normalized"} =>
        RenderNumbering(IncrementLast(c_token)) \in c_next

\* The candidates of a two-digit token of depth 4 and of one of depth 5.
C14_Witness ==
    /\ c_pc = "generated"
    /\ c_token \in {<<1, 9, 10, 10>>, <<1, 1, 1, 1, 9>>}
    /\ RenderNumbering(IncrementLast(c_token)) \in c_next

\* C19: a token of depth 1 to 4 rendered as the dot-joined string with one
\* trailing dot and parsed back gives the same components; and normalizing the
\* normalized key "<numbering> <text>" returns it unchanged.
C19_NumberingRoundTrip ==
    /\ (c_pc \in {"parsed", "generated", "normalized"} /\ Len(c_token) <= 4)
          => c_parts = c_token
    /\ c_pc = "normalized" =>
          /\ c_norm = c_text \o <<" ">> \o PyStrip(c_title)
          /\ normalized_key(c_norm) = c_norm

\* A depth-4 token with a two-digit component went through render, parse and
\* key normalization.
C19_Witness ==
    /\ c_pc = "normalized"
    /\ c_token = <<10, 1, 9, 10>>
    /\ c_title = <<"2", " ", "a">>
    /\ c_parts = c_token
    /\ c_norm = c_text \o <<" ">> \o c_title

---------------------------------------------------------------------------
(* Claims about the Hierarchical Tree Builder (SpecTree)                   *)

\* The tree flattened to <<parent key, key>> pairs, the root having parent <<>>;
\* the implicit "introduction" children are not titles and are left out.
RECURSIVE PairsOf(_, _)
RECURSIVE PairsFrom(_, _, _)
PairsOf(parent, value) ==
    IF IsDict(value) THEN PairsFrom(parent, value.items, Len(value.items)) ELSE <<>>
PairsFrom(parent, items, n) ==
    IF n = 0 THEN <<>>
    ELSE PairsFrom(parent, items, n - 1)
         \o (IF items[n][1] = Introduction THEN <<>> ELSE <<<<parent, items[n][1]>>>>)
         \o PairsOf(items[n][1], items[n][2])
TreePairs == PairsFrom(<<>>, t_tree, Len(t_tree))

\* Where title is in the tree: the parents it is filed under, one per occurrence.
PlacesOf(title) ==
    LET at == {i \in 1..Len(TreePairs) : TreePairs[i][2] = title}
    IN  [i \in at |-> TreePairs[i][1]]
InTree(title) == \E i \in 1..Len(TreePairs) : TreePairs[i][2] = title

\* The numbering of a flat title, "" for none: its first word when that is a
\* canonical rendering of a token.
TitleNumbering(title) ==
    LET word == SplitFirstSpace(title)[1]
    IN  IF Len(SplitFirstSpace(title)) = 2 /\ word # <<>> /\ IsDigitsAndDots(word)
           /\ Canonical(word)
        THEN word ELSE <<>>
FlatTitles == DictKeys(t_flat)

\* All titles carry well-formed numbering, each a candidate of its predecessor.
WellFormedLogical ==
    /\ \A i \in 1..Len(FlatTitles) : TitleNumbering(FlatTitles[i]) # <<>>
    /\ \A i \in 2..Len(FlatTitles) :
          TitleNumbering(FlatTitles[i])
              \in generate_next_numberings(TitleNumbering(FlatTitles[i - 1]))

\* The titles of the flat mapping whose numbering is that of title without its
\* last component.
ParentsOf(title) ==
    LET parts == ParseNumbering(TitleNumbering(title))
    IN  {FlatTitles[i] : i \in {k \in 1..Len(FlatTitles) :
            /\ TitleNumbering(FlatTitles[k]) # <<>>
            /\ ParseNumbering(TitleNumbering(FlatTitles[k]))
                  = SubSeq(parts, 1, Len(parts) - 1)}}

\* Title is in the tree exactly once, at the root when its numbering has one
\* component, else under the entry with its numbering minus the last component.
PlacedUnderParent(title) ==
    /\ Cardinality(DOMAIN PlacesOf(title)) = 1
    /\ \A i \in DOMAIN PlacesOf(title) :
          IF Len(ParseNumbering(TitleNumbering(title))) = 1
          THEN PlacesOf(title)[i] = <<>>
          ELSE PlacesOf(title)[i] \in ParentsOf(title)

\* C15: for a flat mapping whose titles all carry well-formed numbering, each
\* a candidate of its predecessor, the tree flattened to (parent, title) pairs
\* holds every input title exactly once, under the entry whose numbering is
\* the title's numbering minus its last component.
C15_TreeRoundTrip ==
    (t_pc = "tree" /\ WellFormedLogical) =>
        \A i \in 1..Len(FlatTitles) : PlacedUnderParent(FlatTitles[i])

\* The same when, in addition, the entry with the numbering minus the last
\* component is in the mapping for every title of depth 2 or more: this holds.
C15_RoundTripWithParents ==
    (/\ t_pc = "tree"
     /\ WellFormedLogical
     /\ \A i \in 1..Len(FlatTitles) :
           Len(ParseNumbering(TitleNumbering(FlatTitles[i]))) > 1
               => ParentsOf(FlatTitles[i]) # {})
        => \A i \in 1..Len(FlatTitles) : PlacedUnderParent(FlatTitles[i])

\* The group of organize_by_levels_with_grouping filed under a parent numbering
\* that is the numbering of no title of the flat mapping.
OrphanGroup(g) ==
    /\ PyFind(t_organized[g][1], ForWord, 0) # -1
    /\ \A i \in 1..Len(FlatTitles) :
          NumberingPrefixEnd(FlatTitles[i]) = -1
          \/ numbering_of_title(FlatTitles[i]) # PyStrip(AfterLastFor(t_organized[g][1]))

\* C16: the entries of a group of titles of depth 2 or more whose parent
\* numbering matches no entry of the mapping (2.1. B with no 2.) are in the
\* final tree, with their texts.
C16_OrphansKept ==
    t_pc = "tree" =>
        \A g \in 1..Len(t_organized) :
            OrphanGroup(g) =>
                \A e \in 1..Len(t_organized[g][2]) :
                    InTree(t_organized[g][2][e][1])

\* The number of components of the leading dotted-integer run of key, 0 for none.
LeadingComponents(key) ==
    IF AfterDottedNumber(key, 0) = -1 THEN 0
    ELSE Len(SplitOn(SubSeq(key, 1, AfterDottedNumber(key, 0)), "."))

\* C17: the final filter keeps a root key if and only if it has no numbering
\* or a numbering of a single component, drops it if and only if its numbering
\* has two or more components, and leaves the nested levels unfiltered.
C17_RootFilter ==
    t_pc = "tree" =>
        \A i \in 1..Len(t_restructured) :
            LET key == t_restructured[i][1]
            IN  /\ DictHas(t_tree, key) <=> LeadingComponents(key) <= 1
                /\ DictHas(t_tree, key) =>
                      Len(DictGet(t_tree, key).items) = Len(t_restructured[i][2].items)

\* The part of C17 that holds: root keys with two or more components are
\* dropped, keys that do not start with a digit and keys "N." or "N.<text>" are
\* kept, and the children of a kept entry are all there.
C17_RootFilterOnDottedKeys ==
    t_pc = "tree" =>
        \A i \in 1..Len(t_restructured) :
            LET key == t_restructured[i][1]
            IN  /\ LeadingComponents(key) >= 2 => ~DictHas(t_tree, key)
                /\ (LeadingComponents(key) = 0 \/ AfterNumDot(key, 0) # -1)
                      => (LeadingComponents(key) <= 1 => DictHas(t_tree, key))
                /\ DictHas(t_tree, key) =>
                      Len(DictGet(t_tree, key).items) = Len(t_restructured[i][2].items)

---------------------------------------------------------------------------
(* Claims about the Boundary Refiner                                       *)

\* The offsets at which sub occurs in s.
Occurrences(s, sub) == {i \in 0..(Len(s) - Len(sub)) : StartsWithAt(s, sub, i)}

\* No form of the title (search key, raw title, numbering-stripped title)
\* occurs in the body.
TitleAbsent(body, title) ==
    /\ Occurrences(body, modified_title(title)) = {}
    /\ Occurrences(body, title) = {}
    /\ Occurrences(body, StripLeadingNumber(title)) = {}

\* Neither the next title's search key nor the raw next title occurs in the body.
NextTitleAbsent(body, next_title) ==
    /\ Occurrences(body, modified_title(next_title)) = {}
    /\ Occurrences(body, next_title) = {}

\* C8: the Boundary Refiner is idempotent: applied to its own output with
\* the same title list it returns the same body for every title.
C8_RefinerIdempotent ==
    r_pc = "twice" => r_out2 = r_out1

\* C9: for every title with a non-empty unrefined body, if the title is not
\* found the refined body equals the unrefined body, and in no failed-search
\* case (title absent, or next title absent while the title is found) is the
\* refined body empty.
C9_FailedSearchKeepsBody ==
    r_pc # "input" =>
        \A i \in 1..Len(r_text) :
            LET title == r_text[i][1]
                body == r_text[i][2]
                refined == DictGet(r_out1, title)
            IN  body # <<>> =>
                  /\ TitleAbsent(body, title) => refined = body
                  /\ ( \/ TitleAbsent(body, title)
                       \/ i < Len(r_text) /\ NextTitleAbsent(body, r_text[i + 1][1]) )
                     => refined # <<>>

\* The first half of C9 alone: a title that is not found leaves its body unchanged.
C9_AbsentTitleKeepsBody ==
    r_pc # "input" =>
        \A i \in 1..Len(r_text) :
            TitleAbsent(r_text[i][2], r_text[i][1])
                => DictGet(r_out1, r_text[i][1]) = r_text[i][2]

\* Where the fallback chain of section 4.5 locates the title in the body:
\* <<offset, length of the form that was found>>.
LocatedTitle(body, title) ==
    IF Occurrences(body, modified_title(title)) # {}
    THEN <<SetMin(Occurrences(body, modified_title(title))), Len(modified_title(title))>>
    ELSE <<SetMin(Occurrences(body, title)), Len(title)>>

\* C10: for every title at any position (the final one included) and of any
\* numbering depth that occurs exactly once in its body, the refined body is
\* the text from the located occurrence up to, not including, the first literal
\* occurrence of the next title after it (to the end of the body for the final
\* title).
C10_SingleOccurrenceLocated ==
    r_pc # "input" =>
        \A i \in 1..Len(r_text) :
            LET title == r_text[i][1]
                body == r_text[i][2]
                refined == DictGet(r_out1, title)
                at == LocatedTitle(body, title)
                nexts == IF i < Len(r_text)
                         THEN {e \in Occurrences(body, r_text[i + 1][1]) :
                                  e >= at[1] + at[2]}
                         ELSE {Len(body)}
            IN  (Cardinality(Occurrences(body, title)) = 1 /\ nexts # {})
                  => refined = PyStrip(PySlice(body, at[1], SetMin(nexts)))

---------------------------------------------------------------------------
(* Claims about the Section Segmenter                                      *)

\* The key under which the Segmenter files TOC entry i.
SegKey(i) ==
    IF s_pc = "nonum" THEN strip_trailing_number(SegToc.formatted_toc[i].title)
    ELSE SegToc.formatted_toc[i].title

\* The cleaned text of 0-based page p, as the no-numbering mode reads it.
SegPageText(p) == clean_text(s_config, PageText(s_doc.pages[p + 1]))

\* The title of entry i occurs on no page of its page range.
TitleOnNoPage(i) ==
    \A p \in start_page_of(SegToc.formatted_toc, i)
               ..end_page_of(s_doc, SegToc.formatted_toc, i) :
        ScanFor(SegPageText(p), SegKey(i)) = -1

\* C6: in no-numbering mode, an entry whose title occurs on no page of its
\* range gets the page text from its start page as body: the body is not empty
\* when that page has text (after the configured boilerplate is removed).
C6_TitleNotFoundKeepsPageText ==
    s_pc = "nonum" =>
        \A i \in 1..Len(s_doc.toc) :
            ( /\ TitleOnNoPage(i)
              /\ \A j \in (i + 1)..Len(s_doc.toc) : SegKey(j) # SegKey(i)
              /\ clean_text(s_config,
                    RemoveTexts(SegPageText(start_page_of(SegToc.formatted_toc, i)),
                                s_config.texts_to_remove,
                                Len(s_config.texts_to_remove))) # <<>> )
            => DictGet(s_sections, SegKey(i)) # <<>>

\* C7: in both modes the output has exactly one entry per TOC entry, in TOC
\* order, also when two entries have the same title.
C7_OneSectionPerTocEntry ==
    s_pc \in {"trusted", "nonum"} =>
        /\ Len(s_sections) = Len(s_doc.toc)
        /\ \A i \in 1..Len(s_sections) : s_sections[i][1] = SegKey(i)

---------------------------------------------------------------------------
(* Claims on the rewritten title (search_and_replace_numbered_titles)      *)

\* The end offset of the substring re.match matched (match.end()), from token
\* k of pat at offset pos: the repetitions are greedy, so the longest run that
\* lets the rest match is taken; -1 when nothing matches.
RECURSIVE MatchEndAt(_, _, _, _)
MatchEndAt(pat, k, text, pos) ==
    IF k > Len(pat) THEN pos
    ELSE IF pat[k][1] \in {"digits", "spaces"}
    THEN LET lo == IF pat[k][1] = "digits" THEN 1 ELSE 0
             hi == IF pat[k][1] = "digits" THEN DigitRun(text, pos)
                   ELSE SkipSpaces(text, pos) - pos
             ok == {n \in lo..hi : MatchEndAt(pat, k + 1, text, pos + n) # -1}
         IN  IF ok = {} THEN -1
             ELSE MatchEndAt(pat, k + 1, text, pos + SetMax(ok))
    ELSE IF pat[k][1] = "any"
    THEN IF pos < Len(text) /\ text[pos + 1] # "\n"
         THEN MatchEndAt(pat, k + 1, text, pos + 1) ELSE -1
    ELSE IF pos < Len(text) /\ Lower(text[pos + 1]) = Lower(pat[k][2])
         THEN MatchEndAt(pat, k + 1, text, pos + 1) ELSE -1

\* The substring of the page text that the pattern matched at match_position
matched_text ==
    PySlice(search_page_text, match_position,
            MatchEndAt(search_pattern, 1, search_page_text, match_position))

\* C21: on a hit the entry's title becomes exactly the substring of the page
\* text that the regular expression matched, nothing more and nothing less.
C21_TitleIsMatchedSubstring ==
    [][SearchHit => q_toc'[q_i].title = matched_text]_vars

---------------------------------------------------------------------------
(* Claims on the numbering flag (extract_toc)                              *)

FirstTitleNumbered ==
    HasNumberingPrefix(clean_text(s_config, s_doc.toc[1].title))

\* C22: the document is segmented in numbering-trusted mode (has_numbering)
\* if and only if the first cleaned TOC title matches the numbering prefix
\* pattern, whatever the later titles are.
C22_FlagFromFirstTitleOnly ==
    s_pc \in {"trusted", "nonum"} => ((s_pc = "trusted") <=> FirstTitleNumbered)

\* What holds: a numbered first title is enough for numbering-trusted mode.
C22_NumberedFirstTitleIsEnough ==
    s_pc = "nonum" => ~FirstTitleNumbered

---------------------------------------------------------------------------
(* Claims about the Repairer's reconstruction (SpecRepairDeep)             *)

NumberedAfter(j) == {i \in (j + 1)..Len(n_norm) : NormNumberings[i] # <<>>}
NextNumbering(j) == NormNumberings[SetMin(NumberedAfter(j))]

\* Entry j was flagged between a numbered predecessor that the walk accepted
\* and a numbered successor.
RebuiltBetween(j) ==
    /\ j \in n_flagged
    /\ NumberedBefore(j) # {}
    /\ NumberedAfter(j) # {}
    /\ SetMax(NumberedBefore(j)) \notin n_flagged
    /\ Canonical(PrevNumbering(j))
    /\ Canonical(NextNumbering(j))

\* s is one level deeper than p, under p's prefix
OneLevelDeeperUnder(p, s) ==
    /\ Len(s) = Len(p) + 1
    /\ SubSeq(s, 1, Len(p)) = p

\* The numbering the reconstruction is specified to give between p and s
SpecifiedNumbering(p, s) ==
    IF OneLevelDeeperUnder(p, s) THEN RenderNumbering(p \o <<1>>)
    ELSE IF Len(p) = Len(s) /\ SubSeq(p, 1, Len(p) - 1) = SubSeq(s, 1, Len(s) - 1)
    THEN RenderNumbering(SubSeq(p, 1, Len(p) - 1) \o <<p[Len(p)] + 1>>)
    ELSE RenderNumbering(SubSeq(p, 1, Len(p) - 1) \o <<p[Len(p)] + 1>>)

\* The key entry j is specified to get: the numbering, a space, its title text
SpecifiedKey(j) ==
    LET parts == SplitFirstSpace(n_norm[j][1])
    IN  SpecifiedNumbering(ParseNumbering(PrevNumbering(j)),
                           ParseNumbering(NextNumbering(j)))
        \o <<" ">> \o parts[2]

\* C23: a flagged title between a numbered predecessor p and a numbered
\* successor s gets p with a child 1 appended when s is one level deeper than
\* p under p's prefix, whatever the depth of p; otherwise the next sibling of p.
C23_SynthesizedNumbering ==
    (n_pc = "repaired" /\ ~n_out.raised) =>
        \A j \in 1..Len(n_norm) :
            RebuiltBetween(j) => DictHas(n_out.value, SpecifiedKey(j))

\* The two ways the code departs from it: p deeper than one level with s its
\* child, and p of one level with s under the same first component but not
\* one level deeper.
C23_ChildOfDeepPredecessor ==
    (n_pc = "repaired" /\ ~n_out.raised) =>
        \A j \in 1..Len(n_norm) :
            (RebuiltBetween(j) /\ Len(ParseNumbering(PrevNumbering(j))) > 1)
                => DictHas(n_out.value, SpecifiedKey(j))
C23_SiblingOfTopLevelPredecessor ==
    (n_pc = "repaired" /\ ~n_out.raised) =>
        \A j \in 1..Len(n_norm) :
            (RebuiltBetween(j) /\ Len(ParseNumbering(PrevNumbering(j))) = 1)
                => DictHas(n_out.value, SpecifiedKey(j))

---------------------------------------------------------------------------
(* Claims about the end of a section in no-numbering mode (SpecSegment)    *)

NoNumToc == SegToc.formatted_toc
NoNumTitle(i) == strip_trailing_number(NoNumToc[i].title)
NoNumPage(p) == clean_text(s_config, PageText(s_doc.pages[p + 1]))

\* The pages of entry i's range on which its title occurs, and the first one
StartPages(i) ==
    {p \in start_page_of(NoNumToc, i)..end_page_of(s_doc, NoNumToc, i) :
        ScanFor(NoNumPage(p), NoNumTitle(i)) # -1}

\* Entry i has a next entry with another title, which is not part of entry i's
\* own title, and the start of entry i is found.
HasStartAndNext(i) ==
    /\ i + 1 <= Len(NoNumToc)
    /\ NoNumTitle(i + 1) # NoNumTitle(i)
    /\ PyFind(NoNumTitle(i), NoNumToc[i + 1].title, 0) = -1
    /\ StartPages(i) # {}

\* The next title occurs on the start page of entry i, after the start.
NextTitleOnStartPage(i) ==
    LET p == SetMin(StartPages(i))
        start_position == ScanFor(NoNumPage(p), NoNumTitle(i))
    IN  PyFind(NoNumPage(p), NoNumToc[i + 1].title, start_position) # -1

\* C24: once the start of an entry is found, text is accumulated only until
\* the next entry's title is first found: the body holds no text at or after
\* that occurrence, so the next title occurs nowhere in the body, also when
\* it lies on the page of the start.
C24_BodyStopsAtNextTitle ==
    s_pc = "nonum" =>
        \A i \in 1..Len(NoNumToc) :
            HasStartAndNext(i) =>
                PyFind(DictGet(s_sections, NoNumTitle(i)), NoNumToc[i + 1].title, 0) = -1

\* What holds: the body stops at the next title when that title is not on the
\* page of the start.
C24_StopsOnALaterPage ==
    s_pc = "nonum" =>
        \A i \in 1..Len(NoNumToc) :
            (HasStartAndNext(i) /\ ~NextTitleOnStartPage(i)) =>
                PyFind(DictGet(s_sections, NoNumTitle(i)), NoNumToc[i + 1].title, 0) = -1
C24_LaterPageWitness ==
    /\ s_pc = "nonum"
    /\ \E i \in 1..Len(NoNumToc) :
          /\ HasStartAndNext(i)
          /\ ~NextTitleOnStartPage(i)
          /\ \E p \in (SetMin(StartPages(i)) + 1)..end_page_of(s_doc, NoNumToc, i) :
                ScanFor(NoNumPage(p), NoNumToc[i + 1].title) # -1

\* The numbered entries of the repaired mapping and the nearest one before j
OutNumberings == numberings_of(n_out.value)
OutNumberedBefore(j) == {i \in 1..(j - 1) : OutNumberings[i] # <<>>}
OutPrevNumbering(j) == OutNumberings[SetMax(OutNumberedBefore(j))]

\* Every numbered title of the output is a candidate of the nearest numbered
\* title before it.
OutputLogical ==
    \A j \in 1..Len(n_out.value) :
        (OutNumberings[j] # <<>> /\ OutNumberedBefore(j) # {}) =>
            /\ ~ParseRaises(OutPrevNumbering(j))
            /\ OutNumberings[j] \in generate_next_numberings(OutPrevNumbering(j))

\* A second validation walk over the output flags nothing.
SecondWalkFlagsNothing ==
    LET scan == non_logical_indexes(OutNumberings)
    IN  ~scan.raised /\ scan.flagged = {}

\* Running the Repairer on its output gives the output back.
RepairTwiceIsRepairOnce ==
    find_and_replace_numberings(n_out.value) = [raised |-> FALSE, value |-> n_out.value]

\* C25: in the output of find_and_replace_numberings every numbered title's
\* numbering is in the candidate-next set of the nearest preceding numbered
\* title: a second validation walk flags nothing, and repairing twice gives
\* the same as repairing once.
C25_RepairPostcondition ==
    (n_pc = "repaired" /\ ~n_out.raised) =>
        /\ OutputLogical
        /\ SecondWalkFlagsNothing
        /\ RepairTwiceIsRepairOnce

\* The parts of it taken one by one.
C25_SecondWalkFlagsNothing ==
    (n_pc = "repaired" /\ ~n_out.raised) => SecondWalkFlagsNothing
C25_RepairIsIdempotent ==
    (n_pc = "repaired" /\ ~n_out.raised) => RepairTwiceIsRepairOnce

\* C26: find_and_replace_numberings never loses a section: the output has as
\* many entries as the input, and every input body is the value of exactly
\* one output key, also when a rebuilt numbering makes a key equal to another
\* key of the mapping.
C26_NoSectionLost ==
    (n_pc = "repaired" /\ ~n_out.raised) =>
        /\ Len(n_out.value) = Len(n_norm)
        /\ \A j \in 1..Len(n_norm) :
              Cardinality({i \in 1..Len(n_out.value) :
                              n_out.value[i][2] = n_norm[j][2]}) = 1

\* What holds: when no two rebuilt keys are equal, the bodies come back in
\* the order of the input.
C26_BodiesKeptWithoutCollision ==
    (n_pc = "repaired" /\ ~n_out.raised /\ Len(n_out.value) = Len(n_norm)) =>
        \A j \in 1..Len(n_norm) : n_out.value[j][2] = n_norm[j][2]

---------------------------------------------------------------------------
(* Claims about title reconstruction in numbering-trusted mode (SpecRetitle) *)

RepairedNumberings == numberings_of(x_repaired)
FinalNumberings == numberings_of(x_final)

\* C27: the numbering carried by the keys of the final mapping (processed_text,
\* and the input of the Tree Builder) is the one the Repairer produced in
\* step 5: every body is keyed in the final mapping by the numbering it was
\* keyed by after step 5; step 6 does not put the TOC's numbering back.
\* (Stated for the documents in which the mapping has one entry per TOC entry,
\* so that step 6 pairs every key with its own TOC entry.)
C27_RepairedNumberingIsFinal ==
    (x_pc = "retitled" /\ Len(x_repaired) = Len(x_toc)) =>
        \A i \in 1..Len(x_repaired) : \A j \in 1..Len(x_final) :
            x_final[j][2] = x_repaired[i][2]
                => FinalNumberings[j] = RepairedNumberings[i]

\* What holds: the final keys carry the numbering of the TOC, position by
\* position, whatever the Repairer made of it.
C27_TocNumberingIsFinal ==
    (x_pc = "retitled" /\ Len(x_final) = Len(x_toc)) =>
        \A j \in 1..Len(x_final) : FinalNumberings[j] = toc_numbering(x_toc[j].title)
C27_TocNumberingWitness ==
    /\ x_pc = "retitled"
    /\ Len(x_final) = Len(x_toc)
    /\ \E j \in 1..Len(x_final) : FinalNumberings[j] # RepairedNumberings[j]

\* The TOC entry a body was segmented from: the one whose text it ends with
OriginOf(body) == CHOOSE k \in 1..Len(x_toc) : body[Len(body)] = BodyMarks[k]

\* C28: process_titles_in_one_step gives as many entries as the mapping it
\* receives, and keys each body by the numbering of the TOC entry the body was
\* segmented from, also when the mapping has fewer entries than the TOC.
C28_BodyKeyedByItsTocEntry ==
    x_pc = "retitled" =>
        /\ Len(x_final) = Len(x_repaired)
        /\ \A j \in 1..Len(x_final) :
              FinalNumberings[j] = toc_numbering(x_toc[OriginOf(x_final[j][2])].title)

\* What holds: when the mapping has as many entries as the TOC, the pairing is
\* not shifted and every body is keyed by the numbering of its own TOC entry.
C28_AlignedWhenNothingCollapsed ==
    (x_pc = "retitled" /\ Len(x_repaired) = Len(x_toc)) =>
        \A j \in 1..Len(x_final) :
            FinalNumberings[j] = toc_numbering(x_toc[OriginOf(x_final[j][2])].title)
C28_AlignedWitness ==
    /\ x_pc = "retitled"
    /\ Len(x_repaired) = Len(x_toc)
    /\ Len(x_toc) = 3
    /\ x_final # x_repaired

============================================================================
